---- MODULE Spec2Model ----
(***************************************************************************)
(* The (s,S) cost evaluator s_s_cost_discrete and the Zheng-Federgruen      *)
(* search s_s_discrete_exact of pyinv/ss.py, with the loss functions of     *)
(* pyinv/loss_functions.py they rest on, and the state variables of a node  *)
(* of stockpyl/node_state_vars.py.                                          *)
(*                                                                          *)
(* Numbers.  The code computes in 64-bit floating point (IEEE 754 binary64, *)
(* rounding to nearest, ties to even), and so does the model.  A finite     *)
(* float that is not 0 is a tuple <<sg, e, a3, a2, a1, a0>>: the number     *)
(* sg * (a3 * 2^42 + a2 * 2^28 + a1 * 2^14 + a0) * 2^e with sg = 1 or -1,   *)
(* limbs of 14 bits and 1024 <= a3 < 2048 (a mantissa of 53 bits).  Zero is *)
(* <<0, 0, 0, 0, 0, 0>>; <<1, 0>> is inf, <<-1, 0>> is -inf and <<0, 0>> is *)
(* nan.  The sign of a zero is not kept, and no number of the model comes   *)
(* near the ends of the exponent range, so that subnormal numbers and       *)
(* overflow do not arise.                                                   *)
(*                                                                          *)
(* Demand laws.  With use_poisson = FALSE the law is the caller's           *)
(* demand_pmf list, its masses at 0, 1, ..., demand_hi.  With               *)
(* use_poisson = TRUE it is the Poisson law of mean demand_mean, whose      *)
(* masses and cumulative masses the code reads from scipy.  Python          *)
(* sequences are 0-based and TLA+ sequences 1-based: Python's a[k] is       *)
(* a[k + 1] here.                                                           *)
(***************************************************************************)
EXTENDS Integers, Sequences, FiniteSets, TLC

VARIABLES
    \* arguments of the call
    holding_cost, stockout_cost, fixed_cost, use_poisson,
    demand_mean, demand_hi, demand_pmf,
    \* the single-period cost collaborator in use (exact, or with a basin)
    collab,
    \* s_s_discrete_exact: position and locals
    pc, y_star, S0, s, S, s_hat, S_hat, g_hat, gs, gS,
    \* s_s_cost_discrete called directly: arguments, position and locals
    reorder_point, order_up_to_level, cpc, pmf, m, j, M, cost, d,
    \* the exception a call ended with ("" when none)
    err,
    \* the calls made before this one, the evaluations s_s_cost_discrete(s, S)
    \* this call of the search has made so far, in order, each with its
    \* outcome, and what the call before this one did (<<>> when none)
    calls, trace, earlier,
    \* node_state_vars.py: the objects of the program (heap[a] is the content
    \* of the dict with identity a), the NodeStateVars object sv, the dict
    \* sv.to_dict() returned, the object from_dict made of it, what the
    \* holder of each last saw in it, and the changes made so far
    heap, sv, sv_dict, nsv, seen, edits

argvars == <<holding_cost, stockout_cost, fixed_cost, use_poisson,
             demand_mean, demand_hi, demand_pmf, collab>>
searchvars == <<pc, y_star, S0, s, S, s_hat, S_hat, g_hat, gs, gS>>
costvars == <<reorder_point, order_up_to_level, cpc, pmf, m, j, M, cost, d>>
histvars == <<calls, trace, earlier>>
objvars == <<heap, sv, sv_dict, nsv, seen, edits>>
vars == <<argvars, searchvars, costvars, err, histvars, objvars>>

(***************************************************************************)
(* Bounds of the model.                                                     *)
(***************************************************************************)
\* largest demand value an explicit law gives mass to (demand_hi)
MaxDemand == 2
\* an explicit law's masses are w/W for integer weights w with total
\* W <= MaxMass
MaxMass == 3
\* demand_mean ranges over 0..MaxMean
MaxMean == 2
\* holding_cost and stockout_cost range over 1..MaxUnitCost
MaxUnitCost == 2
\* fixed_cost ranges over 1..MaxFixedCost
MaxFixedCost == 4
\* the search may move s and S at most this far from y_star
MaxReach == 6
\* window of the exhaustive enumeration: pairs within this distance of y_star
Window == 3
\* changes made to the objects of node_state_vars.py
MaxEdits == 2

(***************************************************************************)
(* The code's floats: naturals of several limbs, and rounding.              *)
(***************************************************************************)
Abs(x) == IF x < 0 THEN -x ELSE x

NaN == <<0, 0>>

Zero == <<0, 0, 0, 0, 0, 0>>

One == <<1, -52, 1024, 0, 0, 0>>

\* a limb holds 14 bits
Limb == 16384

\* limb i of the natural p (least limb first), 0 outside it
LimbAt(p, i) == IF i >= 0 /\ i < Len(p) THEN p[i + 1] ELSE 0

\* the 14 bits of p from bit k on (k may be negative)
BitsFrom(p, k) ==
    (LimbAt(p, k \div 14) \div 2 ^ (k % 14))
        + (LimbAt(p, (k \div 14) + 1) % 2 ^ (k % 14)) * 2 ^ (14 - (k % 14))

RECURSIVE LimbsFrom(_, _, _)
\* n limbs of p from bit k on
LimbsFrom(p, k, n) ==
    IF n = 0 THEN <<>> ELSE <<BitsFrom(p, k)>> \o LimbsFrom(p, k + 14, n - 1)

RECURSIVE Carry(_, _, _)
\* limb i of a sum: t less its carry, and the limbs above it
CarryLimb(c, i, t) == <<t % Limb>> \o Carry(c, i + 1, t \div Limb)

\* the limbs of the natural sum of c[i] * 2^(14 (i - 1)), with carry added
\* from limb i on: carries propagated
Carry(c, i, carry) == IF i > Len(c) THEN <<>> ELSE CarryLimb(c, i, c[i] + carry)

\* number of bits of a limb
BitLen(x) ==
    IF x >= 128
    THEN (IF x >= 2048 THEN (IF x >= 8192 THEN 14 ELSE IF x >= 4096 THEN 13 ELSE 12)
          ELSE IF x >= 512 THEN (IF x >= 1024 THEN 11 ELSE 10)
          ELSE IF x >= 256 THEN 9 ELSE 8)
    ELSE IF x >= 8 THEN (IF x >= 32 THEN (IF x >= 64 THEN 7 ELSE 6) ELSE IF x >= 16 THEN 5 ELSE 4)
    ELSE IF x >= 2 THEN (IF x >= 4 THEN 3 ELSE 2) ELSE x

RECURSIVE Bits(_, _)
\* number of bits of the natural made of the first i limbs of p
Bits(p, i) ==
    IF i = 0 THEN 0
    ELSE IF p[i] # 0 THEN 14 * (i - 1) + BitLen(p[i])
    ELSE Bits(p, i - 1)

\* p has a bit set below bit k
AnyBelow(p, k) ==
    \E i \in 1..Len(p) :
        /\ k > 14 * (i - 1)
        /\ p[i] % 2 ^ (IF k - 14 * (i - 1) > 14 THEN 14 ELSE k - 14 * (i - 1)) # 0

\* n with its lowest bit set when any holds
Sticky(n, any) == IF any /\ n % 2 = 0 THEN n + 1 ELSE n

\* the float of sign sg, exponent e and mantissa r (four limbs, least
\* first); a mantissa of 54 bits is 2^53
Packed(sg, e, r) ==
    IF r[4] >= 2048 THEN <<sg, e + 1, 1024, 0, 0, 0>>
    ELSE <<sg, e, r[4], r[3], r[2], r[1]>>

\* the natural c of four limbs halved
Halved(c) == [i \in 1..4 |-> (c[i] \div 2) + (LimbAt(c, i) % 2) * 8192]

\* the mantissa to the nearest of g, the 54 bits of a natural from the bit
\* below the mantissa on: one is added at that bit when it is set and a bit
\* below it is set too (sticky), or the mantissa is odd (ties go to even)
Nearest(g, sticky) ==
    Halved(Carry(g, 1, IF g[1] % 2 = 1 /\ (sticky \/ (g[1] \div 2) % 2 = 1)
                       THEN 1 ELSE 0))

\* sg * p * 2^e rounded to the 53 highest of the n bits of p
RoundTo(sg, p, e, n) ==
    IF n = 0 THEN Zero
    ELSE Packed(sg, e + n - 53, Nearest(LimbsFrom(p, n - 54, 4), AnyBelow(p, n - 54)))

\* the float nearest to sg * p * 2^e for a natural p, ties to the even
\* mantissa
Round(sg, p, e) == RoundTo(sg, p, e, Bits(p, Len(p)))

\* float(i) for a Python int i
Float(i) ==
    Round(IF i < 0 THEN -1 ELSE 1, <<Abs(i) % Limb, (Abs(i) \div Limb) % Limb, Abs(i) \div (Limb * Limb)>>, 0)

IsNaN(a) == Len(a) = 2 /\ a[1] = 0

FNeg(a) == [a EXCEPT ![1] = -a[1]]

\* abs(a)
FAbs(a) == [a EXCEPT ![1] = Abs(a[1])]

RECURSIVE GeNat(_, _, _)
\* a >= b for naturals of i limbs
GeNat(a, b, i) ==
    IF i = 0 THEN TRUE
    ELSE IF a[i] # b[i] THEN a[i] > b[i]
    ELSE GeNat(a, b, i - 1)

RECURSIVE SubNat(_, _, _, _)
\* limb i of a difference: t with what it borrows, and the limbs above it
SubLimb(a, b, i, t) == <<t % Limb>> \o SubNat(a, b, i + 1, IF t < 0 THEN 1 ELSE 0)

\* a - b for naturals a >= b of the same number of limbs
SubNat(a, b, i, borrow) ==
    IF i > Len(a) THEN <<>> ELSE SubLimb(a, b, i, a[i] - b[i] - borrow)

\* the mantissa of the float x, 56 bits up
Mantissa(x) == <<0, 0, 0, 0, x[6], x[5], x[4], x[3]>>

\* the natural p of 8 limbs taken df bits down, a bit that leaves at the low
\* end kept as the lowest bit
Shifted(p, df) == <<Sticky(BitsFrom(p, df), AnyBelow(p, df))>> \o LimbsFrom(p, df + 14, 7)

\* the larger less the smaller of two naturals of 8 limbs
Difference(X, Y) == IF GeNat(X, Y, 8) THEN SubNat(X, Y, 1, 0) ELSE SubNat(Y, X, 1, 0)

\* (sx * X + sy * Y) * 2^e for naturals X, Y of 8 limbs and signs sx, sy
AddMantissas(sx, X, sy, Y, e) ==
    Round(IF sx = sy \/ GeNat(X, Y, 8) THEN sx ELSE sy,
          IF sx = sy THEN Carry([i \in 1..8 |-> X[i] + Y[i]], 1, 0) ELSE Difference(X, Y),
          e)

\* x + y for finite floats with the exponent of x not below that of y
AddOrdered(x, y) ==
    AddMantissas(x[1], Mantissa(x), y[1], Shifted(Mantissa(y), x[2] - y[2]), x[2] - 56)

\* the float addition a + b
FAdd(a, b) ==
    IF Len(a) = 2 \/ Len(b) = 2
    THEN (IF IsNaN(a) \/ IsNaN(b) THEN NaN
          ELSE IF Len(a) = 2 /\ Len(b) = 2 THEN (IF a = b THEN a ELSE NaN)
          ELSE IF Len(a) = 2 THEN a ELSE b)
    ELSE IF a[1] = 0 THEN b
    ELSE IF b[1] = 0 THEN a
    ELSE AddOrdered(IF a[2] >= b[2] THEN a ELSE b, IF a[2] >= b[2] THEN b ELSE a)

\* the float subtraction a - b
FSub(a, b) == FAdd(a, FNeg(b))

\* the product of two mantissas: column sums, then carries
MulNat(x, y) ==
    Carry(<<x[6] * y[6],
            x[6] * y[5] + x[5] * y[6],
            x[6] * y[4] + x[5] * y[5] + x[4] * y[6],
            x[6] * y[3] + x[5] * y[4] + x[4] * y[5] + x[3] * y[6],
            x[5] * y[3] + x[4] * y[4] + x[3] * y[5],
            x[4] * y[3] + x[3] * y[4],
            x[3] * y[3], 0>>, 1, 0)

\* the float multiplication a * b
FMul(a, b) ==
    IF Len(a) = 2 \/ Len(b) = 2
    THEN (IF IsNaN(a) \/ IsNaN(b) \/ a[1] = 0 \/ b[1] = 0 THEN NaN
          ELSE <<a[1] * b[1], 0>>)
    ELSE IF a[1] = 0 \/ b[1] = 0 THEN Zero
    ELSE Round(a[1] * b[1], MulNat(a, b), a[2] + b[2])

\* the natural x of 4 limbs times the limb k, in 5 limbs
Scaled(x, k) == Carry([i \in 1..5 |-> IF i <= 4 THEN k * x[i] ELSE 0], 1, 0)

RECURSIVE Fitted(_, _, _, _)
\* the largest limb q' <= q with q' * y <= r, P being q * y:
\* <<q', r - q' * y>>
Fitted(r, y, q, P) ==
    IF GeNat(r, P, 5) THEN <<q, SubNat(r, P, 1, 0)>>
    ELSE Fitted(r, y, q - 1, SubNat(P, y, 1, 0))

\* the limb floor(r / y) and the remainder, for r < y * 2^14 and the highest
\* limb of y not below 2^13: the quotient of the two highest limbs of r by
\* the highest of y is the limb or a little above it
DivLimb(r, y, q) == Fitted(r, y, q, Scaled(y, q))

RECURSIVE Quotient(_, _, _, _)
\* the limb dd[1] put before the limbs in done, and the division carried on
\* from the remainder dd[2]
QuotientStep(dd, y, n, done) == Quotient(dd[2], y, n, <<dd[1]>> \o done)

\* the limbs of the quotient, least first: n more limbs of r / y put before
\* the limbs in done by long division, the lowest bit set when the division
\* leaves a remainder
Quotient(r, y, n, done) ==
    IF n > 0
    THEN QuotientStep(DivLimb(<<0, r[1], r[2], r[3], r[4]>>, y,
                              IF (r[4] * Limb + r[3]) \div y[4] < Limb
                              THEN (r[4] * Limb + r[3]) \div y[4] ELSE Limb - 1),
                      y, n - 1, done)
    ELSE [done EXCEPT ![1] = Sticky(done[1], \E i \in 1..4 : r[i] # 0)]

\* floor(x * 2^56 / y) for naturals x, y of 5 limbs with x < 2 * y and the
\* highest limb of y not below 2^13, the lowest bit set when the division
\* leaves a remainder
DivScaled(x, y) ==
    IF GeNat(x, y, 5) THEN Quotient(SubNat(x, y, 1, 0), y, 4, <<1>>)
    ELSE Quotient(x, y, 4, <<0>>)

\* numpy's float division a / b: x / 0 is inf or -inf, 0 / 0 and inf / inf
\* are nan; the mantissas are divided three bits up, which brings the highest
\* limb of the divisor to 2^13 or more
FDiv(a, b) ==
    IF IsNaN(a) \/ IsNaN(b) THEN NaN
    ELSE IF Len(b) = 2 THEN (IF Len(a) = 2 THEN NaN ELSE Zero)
    ELSE IF Len(a) = 2 THEN <<a[1] * (IF b[1] < 0 THEN -1 ELSE 1), 0>>
    ELSE IF b[1] = 0 THEN (IF a[1] = 0 THEN NaN ELSE <<a[1], 0>>)
    ELSE IF a[1] = 0 THEN Zero
    ELSE Round(a[1] * b[1],
               DivScaled(Scaled(<<a[6], a[5], a[4], a[3]>>, 8),
                         Scaled(<<b[6], b[5], b[4], b[3]>>, 8)),
               a[2] - b[2] - 56)

\* 1.0 / a
FRecip(a) == FDiv(One, a)

\* a < b
FLt(a, b) ==
    IF IsNaN(a) \/ IsNaN(b) THEN FALSE
    ELSE IF Len(a) = 2 THEN a[1] < 0 /\ a # b
    ELSE IF Len(b) = 2 THEN b[1] > 0
    ELSE IF a[1] # b[1] THEN a[1] < b[1]
    ELSE /\ a # b
         /\ IF a[1] > 0
            THEN GeNat(<<b[6], b[5], b[4], b[3], b[2]>>, <<a[6], a[5], a[4], a[3], a[2]>>, 5)
            ELSE GeNat(<<a[6], a[5], a[4], a[3], a[2]>>, <<b[6], b[5], b[4], b[3], b[2]>>, 5)

\* a == b
FEq(a, b) == ~IsNaN(a) /\ a = b

\* a <= b
FLe(a, b) == FLt(a, b) \/ FEq(a, b)

RECURSIVE AddAll(_, _, _, _, _)
\* acc + list[i] + list[i + step] + ... up to list[last], added in this order
AddAll(acc, list, i, last, step) ==
    IF i > last THEN acc
    ELSE AddAll(FAdd(acc, list[i]), list, i + step, last, step)

RECURSIVE SumInPairs(_, _, _)
\* the n floats r[lo], r[lo + 1], ... added in pairs, n a power of 2:
\* ((r[0] + r[1]) + (r[2] + r[3])) + ((r[4] + r[5]) + (r[6] + r[7])) for 8
SumInPairs(r, lo, n) ==
    IF n = 1 THEN r[lo]
    ELSE FAdd(SumInPairs(r, lo, n \div 2), SumInPairs(r, lo + (n \div 2), n \div 2))

RECURSIVE PairwiseSum(_, _, _)
\* numpy's sum of the n floats list[lo], list[lo + 1], ... (pairwise
\* summation): fewer than 8 are added one after the other; up to 128 are
\* added in eight interleaved partial sums, these are added in pairs, and
\* the floats left over are added last; more are split in two parts
PairwiseSum(list, lo, n) ==
    IF n <= 128
    THEN AddAll(IF n < 8 THEN Zero
                ELSE SumInPairs([k \in 1..8 |->
                        AddAll(list[lo + k - 1], list, lo + k + 7,
                               lo + n - (n % 8) - 1, 8)], 1, 8),
                list, IF n < 8 THEN lo ELSE lo + n - (n % 8), lo + n - 1, 1)
    ELSE FAdd(PairwiseSum(list, lo, (n \div 2) - ((n \div 2) % 8)),
              PairwiseSum(list, lo + (n \div 2) - ((n \div 2) % 8),
                          n - ((n \div 2) - ((n \div 2) % 8))))

\* np.sum of a list of floats
NpSum(list) == PairwiseSum(list, 1, Len(list))

\* the float of the decimal n / 10^k the code or a test writes
Decimal(n, k) == FDiv(Float(n), Float(10 ^ k))

\* unittest's assertAlmostEqual(a, c, places): a == c or
\* round(abs(a - c), places) == 0, for the places the tests use; the bound
\* is the largest float that round(., places) takes to 0
\* (0.0004999999999999999 and 5e-08)
AlmostEqual(a, c, places) ==
    \/ FEq(a, c)
    \/ /\ places \in {3, 7}
       /\ FLe(FAbs(FSub(a, c)),
              IF places = 3 THEN <<1, -63, 1048, 9437, 3014, 10747>>
              ELSE <<1, -77, 1717, 16169, 10994, 12104>>)

(***************************************************************************)
(* Python values a parameter may hold besides a float.                      *)
(***************************************************************************)
None == [tag |-> "None", v |-> <<>>]

PyInt(i) == [tag |-> "int", v |-> i]

PyList(seq) == [tag |-> "list", v |-> seq]

PyDict(seq) == [tag |-> "dict", v |-> seq]

IsNone(x) == x.tag = "None"

(***************************************************************************)
(* The explicit demand laws the calls are made with: every weight vector    *)
(* over 0..hi, hi <= MaxDemand, with total weight W in 1..MaxMass, as the   *)
(* masses w[k] / W.  (1) alone is the law with all its mass at 0.           *)
(***************************************************************************)
RECURSIVE SumInts(_)
SumInts(w) == IF Len(w) = 0 THEN 0 ELSE w[Len(w)] + SumInts(SubSeq(w, 1, Len(w) - 1))

Weights ==
    UNION { { w \in [1..n -> 0..MaxMass] : SumInts(w) \in 1..MaxMass } :
            n \in 1..(MaxDemand + 1) }

\* the list [w[0] / W, w[1] / W, ...] of Python floats
LawOf(w) == [k \in 1..Len(w) |-> FDiv(Float(w[k]), Float(SumInts(w)))]

Laws == { LawOf(w) : w \in Weights }

\* cumulative mass of an explicit law up to demand k
LawCdf(law, k) ==
    AddAll(Zero, law, 1, IF k + 1 < Len(law) THEN k + 1 ELSE Len(law), 1)

(***************************************************************************)
(* scipy.stats.poisson.  poisson.pmf(k, mean) is the float scipy gets from  *)
(* the closed form exp(k * log(mean) - gammaln(k + 1) - mean), and          *)
(* poisson.cdf(k, mean) is pdtr(k, mean), the cumulative mass as one float  *)
(* that is never above 1.0.  Both are tabulated, for the means 0 .. 4 of    *)
(* the calls and for the means of the worked examples.                      *)
(***************************************************************************)
\* the means of the worked examples of tests/test_ss.py and of the
\* specification
ExampleMeans == {6, 10, 15, 23, 40, 61, 64, 65}

\* poisson.pmf(k, mean) for k = 0 .. 6 * mean + 16, a row of floats for each
\* mean
PoissonPmfTable ==
    (0 :> <<
        <<1, -52, 1024, 0, 0, 0>>, <<0, 0, 0, 0, 0, 0>>,
        <<0, 0, 0, 0, 0, 0>>, <<0, 0, 0, 0, 0, 0>>,
        <<0, 0, 0, 0, 0, 0>>, <<0, 0, 0, 0, 0, 0>>,
        <<0, 0, 0, 0, 0, 0>>, <<0, 0, 0, 0, 0, 0>>,
        <<0, 0, 0, 0, 0, 0>>, <<0, 0, 0, 0, 0, 0>>,
        <<0, 0, 0, 0, 0, 0>>, <<0, 0, 0, 0, 0, 0>>,
        <<0, 0, 0, 0, 0, 0>>, <<0, 0, 0, 0, 0, 0>>,
        <<0, 0, 0, 0, 0, 0>>, <<0, 0, 0, 0, 0, 0>>,
        <<0, 0, 0, 0, 0, 0>> >>) @@
    (1 :> <<
        <<1, -54, 1506, 13667, 6323, 12088>>, <<1, -54, 1506, 13667, 6323, 12088>>,
        <<1, -55, 1506, 13667, 6323, 12090>>, <<1, -57, 2009, 1839, 2970, 5191>>,
        <<1, -59, 2009, 1839, 2970, 5197>>, <<1, -61, 1607, 4748, 2376, 4151>>,
        <<1, -63, 1071, 8626, 12506, 13688>>, <<1, -66, 1224, 9859, 2590, 10966>>,
        <<1, -69, 1224, 9859, 2590, 10974>>, <<1, -72, 1088, 8763, 11405, 658>>,
        <<1, -76, 1741, 10745, 1864, 1045>>, <<1, -79, 1266, 10793, 8802, 15644>>,
        <<1, -83, 1688, 14391, 6275, 15413>>, <<1, -86, 1039, 5075, 5122, 6966>>,
        <<1, -90, 1187, 12822, 1173, 920>>, <<1, -94, 1266, 15861, 6712, 9737>>,
        <<1, -98, 1266, 15861, 6712, 9735>>, <<1, -102, 1192, 7218, 4390, 3365>>,
        <<1, -106, 1059, 15518, 7543, 4825>>, <<1, -111, 1785, 2853, 13566, 13288>>,
        <<1, -115, 1428, 2283, 1023, 803>>, <<1, -119, 1088, 1739, 7801, 2955>>,
        <<1, -124, 1582, 11466, 14326, 1342>> >>) @@
    (2 :> <<
        <<1, -55, 1108, 10922, 3838, 460>>, <<1, -54, 1108, 10922, 3838, 460>>,
        <<1, -54, 1108, 10922, 3838, 461>>, <<1, -55, 1478, 3640, 5117, 6070>>,
        <<1, -56, 1478, 3640, 5117, 6078>>, <<1, -57, 1182, 9465, 13924, 4856>>,
        <<1, -59, 1576, 12621, 2181, 11930>>, <<1, -61, 1802, 380, 11855, 11301>>,
        <<1, -63, 1802, 380, 11855, 11313>>, <<1, -65, 1601, 13081, 8717, 15520>>,
        <<1, -67, 1281, 7188, 6974, 5867>>, <<1, -70, 1863, 14924, 4186, 11483>>,
        <<1, -72, 1242, 9949, 8252, 7668>>, <<1, -75, 1529, 5944, 74, 6920>>,
        <<1, -78, 1747, 13814, 14128, 7894>>, <<1, -81, 1864, 5997, 11793, 9524>>,
        <<1, -84, 1864, 5997, 11793, 9536>>, <<1, -87, 1754, 11427, 8208, 8941>>,
        <<1, -90, 1559, 11978, 3655, 9776>>, <<1, -93, 1313, 7499, 16013, 2198>>,
        <<1, -96, 1050, 12553, 9533, 11600>>, <<1, -100, 1601, 2745, 4385, 1308>>,
        <<1, -103, 1164, 7954, 6168, 942>>, <<1, -107, 1620, 2518, 12855, 11958>>,
        <<1, -110, 1080, 1679, 3109, 2538>>, <<1, -114, 1382, 8702, 15776, 3226>>,
        <<1, -118, 1701, 9451, 512, 3921>>, <<1, -122, 2016, 11201, 3641, 2842>>,
        <<1, -125, 1152, 6400, 11442, 15720>> >>) @@
    (3 :> <<
        <<1, -57, 1631, 6924, 13114, 12463>>, <<1, -55, 1223, 9289, 9836, 1156>>,
        <<1, -55, 1835, 5742, 6562, 1737>>, <<1, -55, 1835, 5742, 6562, 1730>>,
        <<1, -55, 1376, 8402, 13113, 9498>>, <<1, -56, 1651, 13360, 2629, 1559>>,
        <<1, -57, 1651, 13360, 2629, 1552>>, <<1, -58, 1415, 13792, 2253, 8359>>,
        <<1, -59, 1061, 14440, 1690, 2181>>, <<1, -61, 1415, 13792, 2253, 8374>>,
        <<1, -63, 1699, 166, 9257, 13326>>, <<1, -65, 1853, 7628, 16057, 4091>>,
        <<1, -67, 1853, 7628, 16057, 4104>>, <<1, -69, 1710, 14603, 16082, 6321>>,
        <<1, -71, 1466, 7836, 9103, 12412>>, <<1, -73, 1173, 2992, 7283, 112>>,
        <<1, -76, 1759, 12680, 10924, 8367>>, <<1, -78, 1242, 3168, 7711, 6861>>,
        <<1, -81, 1656, 4224, 10281, 14613>>, <<1, -83, 1046, 943, 9080, 12677>>,
        <<1, -86, 1255, 4409, 1066, 8668>>, <<1, -89, 1434, 9720, 1218, 14576>>,
        <<1, -92, 1565, 177, 8776, 15932>>, <<1, -95, 1633, 897, 9870, 15158>>,
        <<1, -98, 1633, 897, 9870, 15169>>, <<1, -101, 1567, 12002, 13408, 4119>>,
        <<1, -104, 1447, 2257, 6075, 4994>>, <<1, -107, 1286, 5647, 7220, 11747>>,
        <<1, -110, 1102, 9521, 13210, 14815>>, <<1, -114, 1824, 15760, 3787, 6984>>,
        <<1, -117, 1459, 15884, 16137, 2189>>, <<1, -120, 1130, 4898, 13550, 4947>>,
        <<1, -124, 1695, 7348, 3941, 7439>>, <<1, -127, 1233, 875, 13292, 11319>>,
        <<1, -131, 1740, 12801, 10092, 4416>> >>) @@
    (4 :> <<
        <<1, -58, 1200, 5467, 8324, 15604>>, <<1, -56, 1200, 5467, 8324, 15605>>,
        <<1, -55, 1200, 5467, 8324, 15606>>, <<1, -55, 1600, 7290, 177, 4417>>,
        <<1, -55, 1600, 7290, 177, 4426>>, <<1, -55, 1280, 5832, 141, 13364>>,
        <<1, -56, 1707, 2314, 11111, 12349>>, <<1, -57, 1951, 304, 12699, 2418>>,
        <<1, -58, 1951, 304, 12699, 2433>>, <<1, -59, 1734, 3911, 13108, 9454>>,
        <<1, -60, 1387, 6406, 3933, 4281>>, <<1, -62, 2018, 381, 7210, 9190>>,
        <<1, -63, 1345, 5715, 10268, 6130>>, <<1, -65, 1655, 13336, 2555, 8810>>,
        <<1, -67, 1892, 5879, 580, 676>>, <<1, -69, 2018, 8455, 8264, 9488>>,
        <<1, -71, 2018, 8455, 8264, 9487>>, <<1, -73, 1899, 12776, 15488, 8907>>,
        <<1, -75, 1688, 11357, 4665, 6119>>, <<1, -77, 1422, 940, 14276, 8594>>,
        <<1, -79, 1137, 10583, 1590, 13432>>, <<1, -82, 1733, 9104, 14907, 2529>>,
        <<1, -84, 1260, 12579, 9352, 1858>>, <<1, -87, 1754, 1830, 5888, 2532>>,
        <<1, -89, 1169, 6681, 9386, 12613>>, <<1, -92, 1496, 13795, 4806, 1762>>,
        <<1, -95, 1842, 4375, 12216, 12154>>, <<1, -97, 1091, 11695, 4205, 7827>>,
        <<1, -100, 1247, 11025, 7146, 13694>>, <<1, -103, 1376, 12165, 16360, 10610>>,
        <<1, -106, 1468, 8607, 16359, 1358>>, <<1, -109, 1515, 14699, 5787, 15774>>,
        <<1, -112, 1515, 14699, 5787, 15784>>, <<1, -115, 1469, 15743, 6109, 842>>,
        <<1, -118, 1383, 8070, 15387, 5606>>, <<1, -121, 1264, 14868, 15940, 14483>>,
        <<1, -124, 1124, 5935, 1426, 9256>>, <<1, -128, 1944, 13808, 9552, 8886>>,
        <<1, -131, 1637, 12490, 9768, 14434>>, <<1, -134, 1343, 13189, 6755, 2976>>,
        <<1, -137, 1075, 721, 2127, 5770>> >>) @@
    (6 :> <<
        <<1, -61, 1299, 9503, 1103, 5334>>, <<1, -59, 1949, 6062, 9846, 16189>>,
        <<1, -57, 1462, 450, 15577, 3954>>, <<1, -56, 1462, 450, 15577, 3952>>,
        <<1, -55, 1096, 8530, 3490, 15255>>, <<1, -55, 1315, 13513, 912, 5188>>,
        <<1, -55, 1315, 13513, 912, 5193>>, <<1, -55, 1127, 13923, 3122, 9133>>,
        <<1, -56, 1691, 12692, 12875, 13708>>, <<1, -56, 1127, 13923, 3122, 9142>>,
        <<1, -57, 1353, 6877, 7023, 14238>>, <<1, -58, 1476, 7502, 10641, 5090>>,
        <<1, -59, 1476, 7502, 10641, 5124>>, <<1, -60, 1362, 14487, 6041, 13552>>,
        <<1, -61, 1168, 3055, 7519, 4572>>, <<1, -63, 1869, 1611, 15307, 10614>>,
        <<1, -64, 1401, 13496, 15576, 12051>>, <<1, -66, 1979, 742, 16208, 1565>>,
        <<1, -67, 1319, 5956, 10805, 6518>>, <<1, -69, 1666, 9248, 13648, 15117>>,
        <<1, -71, 1999, 14375, 6548, 5034>>, <<1, -72, 1142, 12895, 10763, 9898>>,
        <<1, -74, 1246, 11089, 1315, 15282>>, <<1, -76, 1300, 14420, 9921, 5218>>,
        <<1, -78, 1300, 14420, 9921, 5278>>, <<1, -80, 1248, 13843, 12801, 4417>>,
        <<1, -82, 1152, 12778, 14337, 2771>>, <<1, -84, 1024, 11359, 1, 640>>,
        <<1, -87, 1756, 10110, 4682, 15259>>, <<1, -89, 1453, 12321, 14609, 14316>>,
        <<1, -91, 1163, 27, 1857, 8089>>, <<1, -94, 1800, 12726, 6047, 3627>>,
        <<1, -96, 1350, 9544, 12727, 6843>>, <<1, -99, 1964, 7925, 8086, 6912>>,
        <<1, -101, 1386, 11377, 889, 3885>>, <<1, -104, 1901, 12326, 283, 4875>>,
        <<1, -106, 1267, 13678, 11111, 8714>>, <<1, -109, 1644, 12431, 9544, 665>>,
        <<1, -111, 1038, 13025, 6890, 2159>>, <<1, -114, 1278, 8469, 7219, 13973>>,
        <<1, -117, 1534, 3609, 11940, 10346>>, <<1, -120, 1796, 2627, 9583, 9247>>,
        <<1, -122, 1026, 6182, 10157, 7584>>, <<1, -125, 1145, 11854, 13624, 11478>>,
        <<1, -128, 1249, 14421, 16352, 12527>>, <<1, -131, 1333, 3368, 8704, 13370>>,
        <<1, -134, 1391, 2802, 10507, 16031>>, <<1, -137, 1420, 12622, 15611, 14777>>,
        <<1, -140, 1420, 12622, 15611, 14831>>, <<1, -143, 1391, 12699, 11615, 4049>>,
        <<1, -146, 1336, 1705, 15738, 2530>>, <<1, -149, 1257, 8351, 15776, 2690>>,
        <<1, -152, 1160, 12750, 12041, 16074>> >>) @@
    (10 :> <<
        <<1, -67, 1523, 6043, 5521, 15515>>, <<1, -64, 1904, 3458, 2806, 7107>>,
        <<1, -61, 1190, 2161, 5850, 347>>, <<1, -60, 1983, 9063, 9750, 577>>,
        <<1, -58, 1239, 11808, 12237, 12654>>, <<1, -57, 1239, 11808, 12237, 12654>>,
        <<1, -56, 1033, 1648, 10198, 2348>>, <<1, -56, 1475, 14058, 525, 5696>>,
        <<1, -56, 1844, 13476, 8848, 11237>>, <<1, -55, 1024, 14768, 12197, 11714>>,
        <<1, -55, 1024, 14768, 12197, 11714>>, <<1, -56, 1863, 7489, 5793, 10837>>,
        <<1, -56, 1552, 14433, 2097, 6322>>, <<1, -56, 1194, 8581, 12956, 2351>>,
        <<1, -57, 1706, 7578, 9146, 7993>>, <<1, -57, 1137, 10513, 11558, 16290>>,
        <<1, -58, 1422, 854, 2160, 12153>>, <<1, -59, 1673, 41, 1578, 4622>>,
        <<1, -60, 1858, 14609, 3574, 1556>>, <<1, -61, 1956, 11928, 14109, 16262>>,
        <<1, -62, 1956, 11928, 14109, 16307>>, <<1, -63, 1863, 9020, 4075, 13174>>,
        <<1, -64, 1694, 2242, 6684, 3046>>, <<1, -65, 1473, 2662, 4387, 10469>>,
        <<1, -66, 1227, 10410, 9117, 11462>>, <<1, -68, 1964, 3549, 11311, 8501>>,
        <<1, -69, 1510, 15333, 9961, 7774>>, <<1, -70, 1119, 3469, 10412, 15455>>,
        <<1, -72, 1598, 14318, 14875, 10469>>, <<1, -73, 1102, 11005, 654, 10630>>,
        <<1, -75, 1470, 3750, 11795, 8635>>, <<1, -77, 1897, 1140, 421, 9573>>,
        <<1, -78, 1185, 10952, 8455, 8081>>, <<1, -80, 1437, 2849, 9752, 9782>>,
        <<1, -82, 1690, 12990, 1835, 16222>>, <<1, -84, 1932, 5483, 9119, 16258>>,
        <<1, -85, 1073, 8507, 12348, 7239>>, <<1, -87, 1160, 9197, 9364, 5999>>,
        <<1, -89, 1221, 10543, 15893, 7222>>, <<1, -91, 1252, 15855, 9159, 3628>>,
        <<1, -93, 1252, 15855, 9159, 3764>>, <<1, -95, 1222, 6677, 6937, 12768>>,
        <<1, -97, 1164, 3238, 11288, 9020>>, <<1, -99, 1082, 15967, 8595, 14096>>,
        <<1, -102, 1969, 732, 3713, 3218>>, <<1, -104, 1750, 4291, 12402, 13834>>,
        <<1, -106, 1521, 15841, 14346, 13425>>, <<1, -108, 1295, 4767, 9072, 11509>>,
        <<1, -110, 1079, 6703, 10291, 4127>>, <<1, -113, 1762, 4926, 1421, 2288>>,
        <<1, -115, 1409, 13771, 4413, 11555>>, <<1, -117, 1105, 12407, 4425, 8396>>,
        <<1, -120, 1701, 2704, 1767, 3733>>, <<1, -122, 1283, 14715, 4115, 15545>>,
        <<1, -125, 1902, 1168, 10952, 3932>>, <<1, -127, 1383, 5318, 4986, 5622>>,
        <<1, -130, 1976, 2916, 7123, 5481>>, <<1, -132, 1386, 12969, 4711, 6510>>,
        <<1, -135, 1912, 13368, 15537, 15451>>, <<1, -137, 1296, 13506, 13311, 2331>>,
        <<1, -140, 1729, 1625, 1364, 2895>>, <<1, -142, 1133, 13689, 5997, 12525>>,
        <<1, -145, 1463, 222, 10910, 2420>>, <<1, -148, 1857, 13025, 14114, 3712>>,
        <<1, -150, 1161, 1997, 2677, 6165>>, <<1, -153, 1429, 1197, 12117, 6387>>,
        <<1, -156, 1732, 3437, 12205, 5446>>, <<1, -158, 1034, 2541, 7531, 5103>>,
        <<1, -161, 1216, 10700, 1150, 3686>>, <<1, -164, 1410, 10031, 6320, 739>>,
        <<1, -167, 1612, 2102, 2541, 12684>>, <<1, -170, 1816, 7906, 14401, 16129>>,
        <<1, -173, 2018, 5144, 8720, 7158>>, <<1, -175, 1105, 15163, 513, 15970>>,
        <<1, -178, 1195, 9750, 4983, 12477>>, <<1, -181, 1275, 4938, 16238, 11531>>,
        <<1, -184, 1342, 6923, 9332, 8391>> >>) @@
    (15 :> <<
        <<1, -74, 1313, 13770, 2207, 11320>>, <<1, -70, 1231, 11885, 8213, 11639>>,
        <<1, -67, 1154, 12166, 10772, 5793>>, <<1, -65, 1443, 7016, 5273, 7226>>,
        <<1, -63, 1353, 3505, 13135, 13954>>, <<1, -62, 2029, 13450, 11511, 12734>>,
        <<1, -60, 1268, 10454, 11290, 14088>>, <<1, -59, 1359, 4179, 12097, 5744>>,
        <<1, -58, 1274, 4942, 8269, 4372>>, <<1, -57, 1061, 15041, 6891, 920>>,
        <<1, -57, 1592, 14370, 2144, 9568>>, <<1, -56, 1086, 861, 1462, 3538>>,
        <<1, -56, 1357, 9268, 5923, 12609>>, <<1, -56, 1566, 6913, 5574, 13294>>,
        <<1, -56, 1678, 5066, 9483, 14219>>, <<1, -56, 1678, 5066, 9483, 14245>>,
        <<1, -56, 1573, 6797, 15035, 2092>>, <<1, -56, 1388, 5034, 6519, 15324>>,
        <<1, -56, 1156, 15117, 16355, 15517>>, <<1, -57, 1826, 11798, 1680, 5521>>,
        <<1, -57, 1370, 656, 9452, 4147>>, <<1, -58, 1957, 3278, 8822, 1251>>,
        <<1, -58, 1334, 7448, 7504, 8322>>, <<1, -59, 1740, 9715, 6226, 12229>>,
        <<1, -59, 1087, 14264, 1843, 11726>>, <<1, -60, 1305, 7286, 8766, 975>>,
        <<1, -61, 1506, 4626, 10114, 11154>>, <<1, -62, 1673, 10602, 315, 14216>>,
        <<1, -63, 1793, 3167, 5019, 9507>>, <<1, -64, 1855, 451, 11407, 4750>>,
        <<1, -65, 1855, 451, 11407, 4618>>, <<1, -66, 1795, 3079, 11567, 13549>>,
        <<1, -67, 1682, 16199, 3676, 13765>>, <<1, -68, 1529, 16216, 363, 10983>>,
        <<1, -69, 1349, 16235, 12849, 13521>>, <<1, -70, 1157, 2213, 8673, 9263>>,
        <<1, -72, 1928, 9150, 8994, 9989>>, <<1, -73, 1563, 11404, 10835, 6766>>,
        <<1, -74, 1234, 8141, 5967, 5364>>, <<1, -76, 1899, 3703, 358, 5699>>,
        <<1, -77, 1424, 6873, 4364, 12594>>, <<1, -78, 1042, 4229, 16380, 13975>>,
        <<1, -80, 1488, 15405, 2336, 1187>>, <<1, -81, 1038, 13033, 14965, 10326>>,
        <<1, -83, 1416, 8836, 12960, 6645>>, <<1, -85, 1888, 11782, 6357, 14341>>,
        <<1, -86, 1231, 12670, 9845, 3608>>, <<1, -88, 1572, 7808, 15357, 2336>>,
        <<1, -90, 1965, 9761, 2812, 6852>>, <<1, -91, 1203, 6979, 5399, 15211>>,
        <<1, -93, 1444, 1821, 9756, 11565>>, <<1, -95, 1698, 15635, 12442, 4500>>,
        <<1, -97, 1960, 5438, 3013, 10918>>, <<1, -98, 1109, 10188, 4178, 15000>>,
        <<1, -100, 1232, 14961, 2822, 13133>>, <<1, -102, 1344, 16321, 4568, 14176>>,
        <<1, -104, 1441, 1103, 1384, 5646>>, <<1, -106, 1516, 14958, 3181, 13759>>,
        <<1, -108, 1569, 3609, 11766, 857>>, <<1, -110, 1595, 13390, 3634, 10371>>,
        <<1, -112, 1595, 13390, 3634, 9946>>, <<1, -114, 1569, 10753, 6529, 8816>>,
        <<1, -116, 1519, 364, 11604, 1105>>, <<1, -118, 1446, 11270, 128, 13601>>,
        <<1, -120, 1356, 4421, 10360, 12433>>, <<1, -122, 1251, 15424, 4522, 8984>>,
        <<1, -124, 1138, 2106, 7090, 5290>>, <<1, -127, 2038, 7196, 3895, 12403>>,
        <<1, -129, 1798, 10204, 11147, 8631>>, <<1, -131, 1564, 325, 7556, 7574>>,
        <<1, -133, 1340, 9641, 4136, 6749>>, <<1, -135, 1132, 14608, 13649, 225>>,
        <<1, -138, 1888, 2502, 11825, 11412>>, <<1, -140, 1551, 14850, 293, 5120>>,
        <<1, -142, 1258, 4955, 9536, 14115>>, <<1, -145, 2013, 4652, 2151, 13106>>,
        <<1, -147, 1589, 7121, 16358, 2403>>, <<1, -149, 1238, 8528, 8491, 287>>,
        <<1, -152, 1905, 6819, 4240, 15517>>, <<1, -154, 1447, 2483, 1354, 7423>>,
        <<1, -156, 1085, 5958, 5111, 13848>>, <<1, -159, 1607, 15502, 1504, 15631>>,
        <<1, -161, 1176, 8945, 5496, 14878>>, <<1, -164, 1701, 496, 15843, 3425>>,
        <<1, -166, 1215, 354, 15997, 11680>>, <<1, -169, 1715, 5319, 15838, 11097>>,
        <<1, -171, 1196, 12094, 1905, 10979>>, <<1, -174, 1650, 11031, 14492, 13313>>,
        <<1, -176, 1125, 7521, 12115, 10215>>, <<1, -179, 1517, 7748, 8235, 11977>>,
        <<1, -182, 2023, 4870, 58, 4799>>, <<1, -184, 1334, 690, 6159, 14804>>,
        <<1, -187, 1740, 900, 8034, 11661>>, <<1, -189, 1122, 10094, 4126, 10554>>,
        <<1, -192, 1433, 2079, 13285, 12302>>, <<1, -195, 1810, 4351, 12470, 7507>>,
        <<1, -197, 1131, 6815, 13938, 210>>, <<1, -200, 1399, 11303, 6601, 12124>>,
        <<1, -203, 1713, 14844, 58, 15689>>, <<1, -205, 1038, 11975, 4504, 1677>>,
        <<1, -208, 1246, 7816, 11958, 8595>>, <<1, -211, 1480, 15775, 15019, 3707>>,
        <<1, -214, 1742, 5067, 3213, 3711>>, <<1, -217, 2029, 14334, 2152, 14728>>,
        <<1, -219, 1171, 1337, 16365, 11778>>, <<1, -222, 1338, 6210, 4660, 4213>>,
        <<1, -225, 1515, 2393, 8676, 3555>> >>) @@
    (23 :> <<
        <<1, -86, 1805, 4734, 4303, 15025>>, <<1, -81, 1297, 9034, 12309, 7215>>,
        <<1, -78, 1865, 3771, 7454, 13428>>, <<1, -75, 1787, 8392, 16018, 14253>>,
        <<1, -72, 1284, 12688, 7417, 9219>>, <<1, -70, 1477, 8038, 1976, 9776>>,
        <<1, -68, 1415, 15212, 8720, 14822>>, <<1, -66, 1163, 1378, 4823, 480>>,
        <<1, -65, 1671, 15293, 4885, 1726>>, <<1, -63, 1068, 2944, 845, 7934>>,
        <<1, -62, 1228, 6662, 7525, 14853>>, <<1, -61, 1284, 3986, 6378, 8815>>,
        <<1, -60, 1230, 12012, 4747, 7094>>, <<1, -59, 1088, 11886, 9240, 14469>>,
        <<1, -59, 1788, 10165, 10500, 5017>>, <<1, -58, 1371, 4516, 14057, 11511>>,
        <<1, -58, 1971, 3420, 16111, 15519>>, <<1, -57, 1333, 7614, 14754, 5181>>,
        <<1, -57, 1703, 14281, 4289, 3001>>, <<1, -56, 1031, 4763, 8201, 2240>>,
        <<1, -56, 1185, 16127, 10250, 8314>>, <<1, -56, 1298, 15323, 304, 1347>>,
        <<1, -56, 1357, 16019, 8509, 14790>>, <<1, -56, 1357, 16019, 8509, 14705>>,
        <<1, -56, 1301, 6477, 6107, 5281>>, <<1, -56, 1197, 4648, 7584, 13423>>,
        <<1, -56, 1059, 2221, 10490, 9281>>, <<1, -57, 1804, 7425, 14838, 12114>>,
        <<1, -57, 1482, 3759, 4582, 1907>>, <<1, -57, 1175, 9196, 1939, 3241>>,
        <<1, -58, 1802, 8639, 6250, 3690>>, <<1, -58, 1337, 5881, 5694, 4878>>,
        <<1, -59, 1922, 7430, 7161, 9161>>, <<1, -59, 1339, 14612, 26, 8870>>,
        <<1, -60, 1812, 13022, 13528, 9980>>, <<1, -60, 1191, 4344, 13571, 6065>>,
        <<1, -61, 1522, 2821, 957, 3253>>, <<1, -62, 1892, 7049, 12260, 4978>>,
        <<1, -62, 1145, 6853, 14750, 6445>>, <<1, -63, 1351, 102, 2274, 3333>>,
        <<1, -64, 1553, 10767, 976, 15487>>, <<1, -65, 1743, 2089, 14283, 3381>>,
        <<1, -66, 1909, 2288, 14863, 5251>>, <<1, -67, 2042, 5496, 12852, 1556>>,
        <<1, -67, 1067, 9575, 14165, 6812>>, <<1, -68, 1091, 5055, 8290, 11375>>,
        <<1, -69, 1091, 5055, 8290, 11230>>, <<1, -70, 1068, 1461, 16131, 16367>>,
        <<1, -72, 2047, 2802, 2247, 10907>>, <<1, -73, 1921, 13664, 11472, 5465>>,
        <<1, -74, 1768, 1430, 6622, 6336>>, <<1, -75, 1594, 12212, 13683, 4355>>,
        <<1, -76, 1410, 12063, 15885, 5458>>, <<1, -77, 1224, 6761, 494, 9823>>,
        <<1, -78, 1043, 298, 1028, 2356>>, <<1, -80, 1744, 11222, 10656, 8453>>,
        <<1, -81, 1433, 2196, 14604, 16259>>, <<1, -82, 1156, 9246, 5462, 13700>>,
        <<1, -84, 1834, 9016, 15444, 13073>>, <<1, -85, 1430, 5363, 16207, 1964>>,
        <<1, -86, 1096, 9573, 11879, 5137>>, <<1, -88, 1653, 14170, 7709, 15342>>,
        <<1, -89, 1227, 1000, 4663, 3920>>, <<1, -91, 1791, 14723, 15912, 545>>,
        <<1, -92, 1287, 15190, 13996, 12496>>, <<1, -94, 1822, 14947, 4939, 3024>>,
        <<1, -95, 1270, 8431, 14365, 2179>>, <<1, -97, 1744, 9621, 13122, 12430>>,
        <<1, -98, 1180, 2653, 13214, 1370>>, <<1, -100, 1573, 8999, 12157, 7501>>,
        <<1, -101, 1034, 764, 14074, 11049>>, <<1, -103, 1339, 14605, 15699, 3855>>,
        <<1, -105, 1712, 1368, 15509, 421>>, <<1, -106, 1078, 13880, 795, 4320>>,
        <<1, -108, 1341, 4414, 12501, 13089>>, <<1, -110, 1645, 4760, 1354, 8862>>,
        <<1, -112, 1991, 10936, 1639, 11295>>, <<1, -113, 1189, 13554, 15874, 1658>>,
        <<1, -115, 1403, 6325, 9060, 15141>>, <<1, -117, 1634, 5292, 8892, 13862>>,
        <<1, -119, 1879, 7724, 13503, 9479>>, <<1, -120, 1067, 5802, 13736, 13956>>,
        <<1, -122, 1197, 8508, 9018, 5477>>, <<1, -124, 1327, 6075, 6640, 7368>>,
        <<1, -126, 1453, 12895, 8833, 3966>>, <<1, -128, 1573, 8367, 11295, 7678>>,
        <<1, -130, 1683, 4760, 3700, 16270>>, <<1, -132, 1780, 514, 1277, 3707>>,
        <<1, -134, 1860, 15431, 16229, 12914>>, <<1, -136, 1923, 10981, 12174, 10503>>,
        <<1, -138, 1966, 6856, 11716, 16255>>, <<1, -140, 1988, 450, 7884, 12385>>,
        <<1, -142, 1988, 450, 7884, 12849>>, <<1, -144, 1966, 10663, 10090, 3838>>,
        <<1, -146, 1924, 13225, 8132, 9101>>, <<1, -148, 1864, 390, 8220, 11663>>,
        <<1, -150, 1786, 5835, 9243, 8001>>, <<1, -152, 1694, 4521, 5219, 15865>>,
        <<1, -154, 1590, 8925, 10584, 10122>>, <<1, -156, 1478, 1343, 12318, 10695>>,
        <<1, -158, 1359, 13688, 1502, 12617>>, <<1, -160, 1238, 10846, 2991, 280>>,
        <<1, -162, 1117, 3678, 16190, 7986>>, <<1, -165, 1995, 13412, 1563, 2423>>,
        <<1, -167, 1765, 8713, 12725, 8483>>, <<1, -169, 1546, 15436, 13646, 9891>>,
        <<1, -171, 1342, 10306, 11225, 15502>>, <<1, -173, 1154, 6718, 1996, 2752>>,
        <<1, -176, 1966, 12659, 5221, 4403>>, <<1, -178, 1660, 463, 11772, 4223>>,
        <<1, -180, 1388, 6345, 10739, 9152>>, <<1, -182, 1150, 12049, 3735, 2022>>,
        <<1, -185, 1890, 8092, 4965, 15880>>, <<1, -187, 1539, 2673, 10857, 11259>>,
        <<1, -189, 1242, 2157, 11349, 4613>>, <<1, -192, 1987, 6729, 1774, 14531>>,
        <<1, -194, 1576, 3641, 16096, 12773>>, <<1, -196, 1239, 6924, 12657, 4503>>,
        <<1, -199, 1932, 10797, 15571, 6106>>, <<1, -201, 1494, 2565, 6668, 12941>>,
        <<1, -203, 1145, 8520, 6751, 2925>>, <<1, -206, 1741, 15529, 5797, 13867>>,
        <<1, -208, 1313, 9830, 8669, 10076>>, <<1, -211, 1965, 985, 14700, 13362>>,
        <<1, -213, 1457, 15529, 15135, 2228>>, <<1, -215, 1073, 813, 3144, 1310>>,
        <<1, -218, 1566, 16271, 3291, 815>>, <<1, -220, 1135, 2369, 7157, 5925>>,
        <<1, -223, 1631, 12622, 1072, 11546>>, <<1, -225, 1163, 12176, 16005, 15815>>,
        <<1, -228, 1647, 2363, 7782, 15388>>, <<1, -230, 1156, 12665, 14595, 14876>>,
        <<1, -233, 1612, 7725, 12898, 8293>>, <<1, -235, 1115, 6452, 13849, 12952>>,
        <<1, -238, 1531, 9594, 3856, 5759>>, <<1, -240, 1043, 12242, 5783, 7804>>,
        <<1, -243, 1412, 2106, 11679, 12478>>, <<1, -246, 1896, 9526, 9228, 12727>>,
        <<1, -248, 1264, 6351, 691, 3026>>, <<1, -251, 1673, 11825, 6219, 1336>>,
        <<1, -253, 1099, 14324, 9236, 1512>>, <<1, -256, 1435, 4865, 6823, 13203>>,
        <<1, -259, 1859, 13458, 996, 4293>>, <<1, -261, 1196, 8658, 5453, 989>>,
        <<1, -264, 1528, 14704, 5147, 5844>>, <<1, -267, 1940, 1936, 4723, 15001>>,
        <<1, -269, 1222, 8851, 507, 14214>>, <<1, -272, 1530, 4168, 9552, 3341>>,
        <<1, -275, 1902, 7839, 7004, 12790>>, <<1, -277, 1174, 11218, 1905, 16093>>,
        <<1, -280, 1440, 15508, 8454, 10912>>, <<1, -283, 1755, 14015, 2381, 10992>>,
        <<1, -285, 1062, 12363, 4459, 10367>>, <<1, -288, 1278, 1375, 8897, 737>>,
        <<1, -291, 1527, 1005, 2757, 5872>> >>) @@
    (40 :> <<
        <<1, -110, 1253, 14628, 9836, 6692>>, <<1, -105, 1567, 5997, 12295, 8374>>,
        <<1, -101, 1959, 3401, 3081, 6367>>, <<1, -97, 1632, 11026, 5298, 8037>>,
        <<1, -94, 2040, 13782, 14815, 1864>>, <<1, -91, 2040, 13782, 14815, 1850>>,
        <<1, -88, 1700, 11485, 12345, 15182>>, <<1, -85, 1214, 12885, 4137, 6160>>,
        <<1, -83, 1518, 7914, 9267, 11814>>, <<1, -81, 1687, 3332, 10297, 7657>>,
        <<1, -79, 1687, 3332, 10297, 7658>>, <<1, -77, 1533, 13455, 13829, 11426>>,
        <<1, -75, 1278, 3021, 3332, 12272>>, <<1, -74, 1966, 7168, 10168, 8813>>,
        <<1, -72, 1404, 9801, 9603, 13257>>, <<1, -71, 1872, 13068, 12805, 1328>>,
        <<1, -69, 1170, 8167, 16195, 2883>>, <<1, -68, 1377, 935, 8451, 12057>>,
        <<1, -67, 1530, 1039, 7570, 6094>>, <<1, -66, 1610, 9717, 5381, 14224>>,
        <<1, -65, 1610, 9717, 5381, 14187>>, <<1, -64, 1533, 14715, 15268, 1088>>,
        <<1, -63, 1394, 7420, 4943, 5442>>, <<1, -62, 1212, 9301, 13559, 1102>>,
        <<1, -62, 2020, 15503, 753, 1945>>, <<1, -61, 1616, 12402, 7156, 1525>>,
        <<1, -60, 1243, 10800, 10545, 15036>>, <<1, -60, 1842, 7505, 8948, 10092>>,
        <<1, -59, 1316, 679, 15754, 2584>>, <<1, -59, 1815, 3762, 11560, 8147>>,
        <<1, -58, 1210, 2508, 7706, 16235>>, <<1, -58, 1561, 7993, 6244, 14743>>,
        <<1, -58, 1951, 14087, 11902, 2036>>, <<1, -57, 1182, 15488, 13171, 3652>>,
        <<1, -57, 1391, 11475, 12604, 4319>>, <<1, -57, 1590, 8434, 361, 7253>>,
        <<1, -57, 1767, 3909, 13144, 11662>>, <<1, -57, 1910, 8654, 15096, 2159>>,
        <<1, -57, 2011, 1349, 9854, 7428>>, <<1, -56, 1031, 5313, 3793, 4183>>,
        <<1, -56, 1031, 5313, 3793, 4248>>, <<1, -57, 2012, 5571, 15793, 4568>>,
        <<1, -57, 1916, 8427, 6459, 2128>>, <<1, -57, 1782, 13173, 12485, 14456>>,
        <<1, -57, 1620, 11976, 2414, 1195>>, <<1, -57, 1440, 10645, 7607, 2858>>,
        <<1, -57, 1252, 12106, 5190, 3829>>, <<1, -57, 1066, 2634, 2325, 10798>>,
        <<1, -58, 1776, 15312, 14798, 12450>>, <<1, -58, 1450, 9156, 10743, 2320>>,
        <<1, -58, 1160, 7325, 5317, 11619>>, <<1, -59, 1820, 5065, 9947, 13170>>,
        <<1, -59, 1400, 3896, 10172, 12464>>, <<1, -59, 1056, 12833, 1185, 12868>>,
        <<1, -60, 1565, 9909, 12072, 9546>>, <<1, -60, 1138, 10185, 16227, 5223>>,
        <<1, -61, 1626, 9870, 4457, 4974>>, <<1, -61, 1141, 7788, 13475, 11908>>,
        <<1, -62, 1574, 7353, 6722, 15533>>, <<1, -62, 1067, 6929, 3724, 13805>>,
        <<1, -63, 1423, 3777, 10427, 12616>>, <<1, -64, 1866, 8714, 8841, 2590>>,
        <<1, -64, 1204, 3508, 3589, 15055>>, <<1, -65, 1529, 2634, 7159, 4225>>,
        <<1, -66, 1911, 7389, 757, 804>>, <<1, -66, 1176, 4547, 1726, 3083>>,
        <<1, -67, 1425, 12958, 15000, 15652>>, <<1, -68, 1702, 7159, 1038, 8889>>,
        <<1, -69, 2002, 14205, 258, 211>>, <<1, -69, 1161, 1348, 12496, 15411>>,
        <<1, -70, 1326, 15584, 14282, 3704>>, <<1, -71, 1495, 2560, 16092, 10461>>,
        <<1, -72, 1661, 4665, 16060, 4293>>, <<1, -73, 1820, 9602, 2787, 5369>>,
        <<1, -74, 1968, 3295, 12312, 6465>>, <<1, -74, 1049, 11588, 2197, 9130>>,
        <<1, -75, 1104, 15647, 4900, 2485>>, <<1, -76, 1148, 85, 11687, 3597>>,
        <<1, -77, 1177, 7229, 10726, 9435>>, <<1, -78, 1192, 5662, 492, 12250>>,
        <<1, -79, 1192, 5662, 492, 12241>>, <<1, -80, 1177, 10244, 6150, 4422>>,
        <<1, -81, 1148, 14789, 13592, 14040>>, <<1, -82, 1107, 6161, 15667, 11458>>,
        <<1, -83, 1054, 10549, 11020, 10969>>, <<1, -85, 1985, 3474, 3397, 929>>,
        <<1, -86, 1846, 11614, 5446, 2688>>, <<1, -87, 1698, 2017, 676, 9752>>,
        <<1, -88, 1543, 12259, 14020, 2286>>, <<1, -89, 1387, 10467, 13522, 13727>>,
        <<1, -90, 1233, 7484, 4738, 8298>>, <<1, -91, 1084, 5859, 6866, 5909>>,
        <<1, -93, 1885, 13752, 543, 16068>>, <<1, -94, 1622, 3725, 12976, 2401>>,
        <<1, -95, 1380, 10142, 13135, 1795>>, <<1, -96, 1162, 10265, 15372, 12280>>,
        <<1, -98, 1937, 11648, 9237, 3488>>, <<1, -99, 1598, 1837, 5422, 8529>>,
        <<1, -100, 1304, 9524, 11113, 14505>>, <<1, -101, 1054, 3393, 13780, 4590>>,
        <<1, -103, 1686, 11983, 12218, 889>>, <<1, -104, 1336, 407, 14381, 16001>>,
        <<1, -105, 1047, 14133, 14171, 4481>>, <<1, -107, 1627, 12252, 6106, 13880>>,
        <<1, -108, 1252, 1863, 916, 10499>>, <<1, -110, 1907, 16102, 2957, 2964>>,
        <<1, -111, 1439, 16171, 5014, 94>>, <<1, -112, 1076, 10253, 3901, 15280>>,
        <<1, -114, 1595, 19, 10028, 5230>>, <<1, -115, 1170, 10536, 3752, 12547>>,
        <<1, -117, 1702, 12346, 8437, 7679>>, <<1, -118, 1227, 3437, 914, 15097>>,
        <<1, -120, 1753, 2569, 8328, 11814>>, <<1, -121, 1241, 2834, 966, 12236>>,
        <<1, -123, 1741, 16337, 7967, 15272>>, <<1, -124, 1211, 13502, 4118, 3795>>,
        <<1, -126, 1671, 7889, 7375, 3570>>, <<1, -127, 1142, 14636, 12324, 10733>>,
        <<1, -129, 1549, 11237, 14767, 9012>>, <<1, -130, 1041, 13199, 13094, 6413>>,
        <<1, -132, 1389, 1215, 11997, 14721>>, <<1, -134, 1836, 12981, 9771, 11679>>,
        <<1, -135, 1204, 7438, 2647, 7174>>, <<1, -137, 1566, 12606, 2111, 12750>>,
        <<1, -139, 2021, 10452, 4838, 15160>>, <<1, -140, 1293, 13898, 7029, 1344>>,
        <<1, -142, 1642, 16088, 6845, 5206>>, <<1, -143, 1034, 15552, 12568, 8422>>,
        <<1, -145, 1293, 11248, 15710, 10420>>, <<1, -147, 1604, 9379, 15040, 12953>>,
        <<1, -149, 1974, 14065, 2127, 11519>>, <<1, -150, 1206, 334, 14056, 6165>>,
        <<1, -152, 1461, 13810, 16045, 457>>, <<1, -154, 1758, 9962, 9200, 15044>>,
        <<1, -155, 1049, 14995, 11117, 7683>>, <<1, -157, 1244, 5636, 5894, 7961>>,
        <<1, -159, 1463, 15304, 14644, 13130>>, <<1, -161, 1709, 11535, 16266, 4720>>,
        <<1, -163, 1982, 4351, 16247, 8451>>, <<1, -164, 1140, 14291, 13005, 692>>,
        <<1, -166, 1303, 13992, 14862, 15282>>, <<1, -168, 1479, 9022, 12450, 2560>>,
        <<1, -170, 1667, 1628, 5720, 15809>>, <<1, -172, 1865, 4686, 4338, 12941>>,
        <<1, -173, 1036, 4423, 15153, 8971>>, <<1, -175, 1143, 7706, 6551, 12534>>,
        <<1, -177, 1253, 1936, 10771, 13>>, <<1, -179, 1363, 15371, 2695, 10709>>,
        <<1, -181, 1474, 8646, 14427, 5418>>, <<1, -183, 1583, 6316, 5376, 2537>>,
        <<1, -185, 1688, 15475, 9011, 5268>>, <<1, -187, 1789, 9996, 3906, 4598>>,
        <<1, -189, 1883, 13109, 4974, 2713>>, <<1, -191, 1969, 16172, 490, 512>>,
        <<1, -193, 2046, 12120, 15829, 2597>>, <<1, -194, 1056, 6255, 16097, 10801>>,
        <<1, -196, 1083, 7676, 11469, 2962>>, <<1, -198, 1104, 2814, 4383, 5863>>,
        <<1, -200, 1118, 2435, 1742, 12903>>, <<1, -202, 1125, 2965, 10512, 7552>>,
        <<1, -204, 1125, 2965, 10512, 7534>>, <<1, -206, 1118, 3150, 12278, 15049>>,
        <<1, -208, 1104, 6348, 3227, 5898>>, <<1, -210, 1084, 1004, 9198, 14385>>,
        <<1, -212, 1057, 10171, 1381, 15349>>, <<1, -214, 1025, 9366, 6304, 15071>>,
        <<1, -217, 1977, 92, 8206, 1263>>, <<1, -219, 1894, 2246, 16299, 6865>>,
        <<1, -221, 1803, 15403, 3820, 7522>>, <<1, -223, 1707, 14292, 1678, 754>>,
        <<1, -225, 1607, 6705, 615, 8988>>, <<1, -227, 1504, 141, 11402, 13324>>,
        <<1, -229, 1399, 1274, 14417, 8191>>, <<1, -231, 1293, 15479, 9261, 12785>>,
        <<1, -233, 1189, 13669, 1925, 5208>>, <<1, -235, 1087, 13901, 13463, 2051>>,
        <<1, -238, 1977, 14849, 14052, 4896>>, <<1, -240, 1787, 15367, 7611, 7912>>,
        <<1, -242, 1607, 2215, 12916, 12553>>, <<1, -244, 1436, 8936, 15206, 15170>>,
        <<1, -246, 1276, 15225, 11696, 13841>>, <<1, -248, 1128, 12735, 654, 2596>>,
        <<1, -251, 1984, 10868, 7631, 12227>>, <<1, -253, 1735, 3683, 494, 15868>>,
        <<1, -255, 1508, 14600, 3279, 14095>>, <<1, -257, 1304, 16169, 11250, 213>>,
        <<1, -259, 1122, 9328, 15314, 15505>>, <<1, -262, 1920, 15963, 15605, 15837>>,
        <<1, -264, 1634, 14283, 8750, 169>>, <<1, -266, 1384, 302, 5500, 3738>>,
        <<1, -268, 1165, 8015, 7218, 11308>>, <<1, -271, 1952, 10684, 771, 3126>>,
        <<1, -273, 1627, 3442, 642, 11912>>, <<1, -275, 1348, 16096, 8682, 6117>>,
        <<1, -277, 1112, 9221, 11721, 3731>>, <<1, -280, 1825, 12192, 5791, 7590>>,
        <<1, -282, 1490, 6609, 4393, 6798>>, <<1, -284, 1210, 7862, 15710, 11347>>,
        <<1, -287, 1956, 5426, 566, 12486>>, <<1, -289, 1572, 15230, 6877, 9131>>,
        <<1, -291, 1258, 5630, 12055, 10959>>, <<1, -294, 2003, 5459, 5254, 7653>>,
        <<1, -296, 1586, 13083, 16003, 14656>>, <<1, -298, 1250, 11119, 9627, 9724>>,
        <<1, -301, 1961, 13908, 11247, 1692>>, <<1, -303, 1531, 3262, 15971, 3206>>,
        <<1, -305, 1189, 4602, 3815, 1900>>, <<1, -308, 1838, 8222, 10805, 733>>,
        <<1, -310, 1414, 3804, 8311, 10942>>, <<1, -312, 1082, 10908, 9185, 1170>>,
        <<1, -315, 1649, 12721, 10095, 6282>>, <<1, -317, 1251, 251, 2608, 979>>,
        <<1, -320, 1888, 5325, 3627, 8812>>, <<1, -322, 1418, 7538, 8109, 5339>>,
        <<1, -324, 1060, 8698, 11269, 2998>>, <<1, -327, 1578, 7612, 9152, 4159>>,
        <<1, -329, 1169, 3818, 7993, 1238>>, <<1, -332, 1724, 3516, 14505, 3018>>,
        <<1, -334, 1265, 7842, 1927, 13398>>, <<1, -337, 1849, 1658, 5360, 9976>>,
        <<1, -339, 1344, 13121, 11345, 15249>>, <<1, -342, 1947, 3653, 10423, 6017>>,
        <<1, -344, 1403, 6618, 8988, 7295>>, <<1, -347, 2013, 13979, 3126, 9099>>,
        <<1, -349, 1438, 7644, 9254, 14810>>, <<1, -352, 2045, 13420, 14618, 15727>>,
        <<1, -354, 1448, 6021, 11944, 9358>>, <<1, -357, 2041, 12314, 1969, 15440>>,
        <<1, -359, 1432, 13240, 8280, 15871>>, <<1, -362, 2002, 2905, 338, 16209>>,
        <<1, -364, 1392, 13418, 7359, 4844>>, <<1, -367, 1929, 7311, 477, 12677>>,
        <<1, -369, 1330, 10691, 12193, 12378>>, <<1, -372, 1827, 8285, 644, 1602>>,
        <<1, -374, 1249, 9445, 14863, 15108>>, <<1, -377, 1701, 9027, 15708, 7394>>,
        <<1, -379, 1153, 9730, 11205, 2988>>, <<1, -382, 1557, 9751, 1095, 13515>>,
        <<1, -384, 1047, 2011, 14367, 1803>>, <<1, -387, 1402, 88, 12106, 13471>>,
        <<1, -390, 1869, 5579, 10680, 16096>>, <<1, -392, 1241, 917, 224, 13442>>,
        <<1, -395, 1641, 1077, 2869, 15213>>, <<1, -397, 1080, 8800, 1889, 11732>>,
        <<1, -400, 1417, 1603, 4895, 11003>>, <<1, -403, 1850, 14800, 1044, 6658>>,
        <<1, -405, 1203, 13755, 5874, 3685>>, <<1, -408, 1559, 10325, 3166, 1800>>,
        <<1, -411, 2012, 6980, 10427, 8892>>, <<1, -413, 1293, 2050, 16043, 14010>>,
        <<1, -416, 1655, 3280, 10050, 6330>>, <<1, -418, 1055, 1764, 13978, 9249>>,
        <<1, -421, 1339, 13423, 13329, 7260>>, <<1, -424, 1694, 10373, 5397, 136>>,
        <<1, -426, 1067, 7953, 7656, 15005>>, <<1, -429, 1339, 9659, 9287, 7979>>,
        <<1, -432, 1674, 7978, 7513, 5725>> >>) @@
    (61 :> <<
        <<1, -141, 2041, 12566, 1547, 10700>>, <<1, -135, 1946, 969, 963, 1775>>,
        <<1, -130, 1854, 13723, 10389, 15779>>, <<1, -125, 1178, 9744, 3700, 10186>>,
        <<1, -121, 1123, 5703, 7623, 2536>>, <<1, -118, 1713, 1734, 9577, 5096>>,
        <<1, -114, 1088, 8782, 3013, 9535>>, <<1, -111, 1185, 11906, 14400, 6039>>,
        <<1, -108, 1130, 2388, 12189, 5742>>, <<1, -106, 1914, 15880, 7911, 1145>>,
        <<1, -103, 1460, 2688, 1116, 16175>>, <<1, -101, 2024, 5216, 1548, 9027>>,
        <<1, -98, 1286, 4679, 11906, 10543>>, <<1, -96, 1508, 14941, 16172, 15492>>,
        <<1, -94, 1643, 10424, 10887, 13383>>, <<1, -92, 1671, 494, 15438, 5652>>,
        <<1, -90, 1592, 11479, 12154, 11036>>, <<1, -88, 1428, 12225, 8734, 16165>>,
        <<1, -86, 1210, 7627, 1256, 7808>>, <<1, -85, 1943, 1895, 11071, 4662>>,
        <<1, -83, 1481, 10251, 13971, 7468>>, <<1, -81, 1075, 15441, 12291, 7584>>,
        <<1, -80, 1491, 10609, 5497, 2735>>, <<1, -79, 1978, 890, 7645, 14630>>,
        <<1, -77, 1256, 14560, 7930, 5408>>, <<1, -76, 1533, 6622, 10985, 11773>>,
        <<1, -75, 1798, 13125, 3434, 12820>>, <<1, -74, 2031, 16040, 4183, 7224>>,
        <<1, -72, 1106, 11515, 10470, 7974>>, <<1, -71, 1163, 15501, 1125, 2748>>,
        <<1, -70, 1183, 5655, 15616, 7291>>, <<1, -69, 1164, 4243, 7172, 9360>>,
        <<1, -68, 1109, 11212, 8628, 5887>>, <<1, -67, 1025, 10114, 13932, 8338>>,
        <<1, -67, 1840, 1281, 5721, 4458>>, <<1, -66, 1603, 8138, 5219, 12013>>,
        <<1, -65, 1358, 8487, 13979, 10058>>, <<1, -64, 1119, 14081, 11745, 2250>>,
        <<1, -64, 1797, 10963, 9799, 11743>>, <<1, -63, 1405, 14245, 7873, 15354>>,
        <<1, -62, 1071, 15982, 2931, 14410>>, <<1, -62, 1594, 14587, 5560, 14708>>,
        <<1, -61, 1158, 3181, 6183, 12919>>, <<1, -61, 1643, 321, 14106, 10958>>,
        <<1, -60, 1138, 14931, 7730, 8060>>, <<1, -60, 1543, 14050, 15212, 4308>>,
        <<1, -60, 2047, 4741, 15898, 11484>>, <<1, -59, 1328, 9177, 10840, 2298>>,
        <<1, -59, 1688, 6201, 15482, 11200>>, <<1, -58, 1050, 15228, 14485, 8173>>,
        <<1, -58, 1282, 2195, 3909, 12158>>, <<1, -58, 1533, 8729, 8531, 7327>>,
        <<1, -58, 1798, 15596, 11583, 6509>>, <<1, -57, 1035, 4029, 5738, 8701>>,
        <<1, -57, 1169, 7282, 5572, 3268>>, <<1, -57, 1297, 331, 10052, 10479>>,
        <<1, -57, 1412, 13526, 15338, 12600>>, <<1, -57, 1511, 15913, 6354, 13366>>,
        <<1, -57, 1590, 2894, 13745, 9938>>, <<1, -57, 1644, 1326, 13100, 12644>>,
        <<1, -57, 1671, 7902, 8403, 14611>>, <<1, -57, 1671, 7902, 8403, 15029>>,
        <<1, -57, 1644, 8567, 13553, 8696>>, <<1, -57, 1592, 5175, 1160, 5648>>,
        <<1, -57, 1517, 11076, 8017, 15282>>, <<1, -57, 1424, 4597, 7272, 7583>>,
        <<1, -57, 1316, 6235, 1508, 6976>>, <<1, -57, 1198, 8122, 1617, 14872>>,
        <<1, -57, 1075, 1985, 4824, 8410>>, <<1, -58, 1900, 15382, 11379, 11410>>,
        <<1, -58, 1656, 8723, 12725, 4688>>, <<1, -58, 1423, 3572, 2394, 13750>>,
        <<1, -58, 1205, 12811, 4759, 10520>>, <<1, -59, 2015, 2333, 6383, 6028>>,
        <<1, -59, 1661, 2144, 14339, 9720>>, <<1, -59, 1351, 870, 11225, 16020>>,
        <<1, -59, 1084, 6519, 7716, 13687>>, <<1, -60, 1718, 2243, 15418, 6255>>,
        <<1, -60, 1343, 10997, 2185, 8904>>, <<1, -60, 1037, 8491, 7494, 9311>>,
        <<1, -61, 1582, 3528, 11019, 10052>>, <<1, -61, 1191, 8927, 13355, 8368>>,
        <<1, -62, 1772, 12883, 3886, 671>>, <<1, -62, 1302, 14600, 12133, 10967>>,
        <<1, -63, 1892, 4821, 13721, 11999>>, <<1, -63, 1357, 16374, 13509, 11247>>,
        <<1, -64, 1926, 7607, 7353, 2470>>, <<1, -64, 1350, 12113, 8922, 2246>>,
        <<1, -65, 1872, 10091, 3804, 14974>>, <<1, -65, 1283, 7836, 14941, 14705>>,
        <<1, -66, 1739, 13536, 1321, 15150>>, <<1, -66, 1166, 4212, 7367, 11238>>,
        <<1, -67, 1546, 9147, 13331, 16268>>, <<1, -68, 2028, 13409, 12027, 15295>>,
        <<1, -68, 1316, 9399, 4145, 1467>>, <<1, -69, 1690, 12415, 8944, 15215>>,
        <<1, -69, 1074, 5499, 11657, 1389>>, <<1, -70, 1351, 3707, 15168, 3326>>,
        <<1, -71, 1682, 2275, 6845, 10261>>, <<1, -71, 1036, 7690, 13651, 3797>>,
        <<1, -72, 1264, 8072, 1581, 3692>>, <<1, -73, 1527, 6668, 5154, 5972>>,
        <<1, -74, 1826, 14722, 2952, 7675>>, <<1, -74, 1081, 15558, 14473, 16289>>,
        <<1, -75, 1269, 3443, 2485, 8811>>, <<1, -76, 1474, 11490, 7257, 548>>,
        <<1, -77, 1697, 4878, 4642, 13966>>, <<1, -78, 1935, 3877, 13409, 3196>>,
        <<1, -78, 1093, 824, 15007, 2858>>, <<1, -79, 1223, 6785, 7628, 167>>,
        <<1, -80, 1356, 14377, 3098, 1823>>, <<1, -81, 1491, 5617, 5028, 12749>>,
        <<1, -82, 1624, 8166, 13962, 5293>>, <<1, -83, 1753, 14471, 15799, 5381>>,
        <<1, -84, 1876, 15774, 16045, 11686>>, <<1, -85, 1991, 3485, 8616, 11978>>,
        <<1, -85, 1047, 1691, 10887, 1469>>, <<1, -86, 1091, 13946, 15273, 4900>>,
        <<1, -87, 1128, 14142, 240, 2195>>, <<1, -88, 1157, 5273, 15253, 5691>>,
        <<1, -89, 1176, 10003, 15780, 11000>>, <<1, -90, 1186, 5482, 14286, 3477>>,
        <<1, -91, 1186, 5482, 14286, 3763>>, <<1, -92, 1176, 11299, 3913, 6900>>,
        <<1, -93, 1157, 11645, 8342, 10829>>, <<1, -94, 1129, 15167, 1719, 15290>>,
        <<1, -95, 1094, 902, 4005, 14856>>, <<1, -96, 1050, 16089, 10685, 9970>>,
        <<1, -98, 2003, 7118, 14737, 7014>>, <<1, -99, 1894, 11812, 14953, 12844>>,
        <<1, -100, 1778, 2011, 12269, 1348>>, <<1, -101, 1655, 15756, 2671, 6023>>,
        <<1, -102, 1530, 8356, 7433, 13133>>, <<1, -103, 1403, 15179, 12855, 3927>>,
        <<1, -104, 1278, 3305, 4857, 134>>, <<1, -105, 1155, 1894, 12156, 8652>>,
        <<1, -106, 1036, 3386, 4640, 10563>>, <<1, -108, 1845, 8303, 4557, 12589>>,
        <<1, -109, 1631, 8765, 4504, 3639>>, <<1, -110, 1431, 16297, 13265, 1212>>,
        <<1, -111, 1247, 14436, 7112, 8242>>, <<1, -112, 1079, 11910, 1738, 8289>>,
        <<1, -114, 1855, 5004, 4833, 6123>>, <<1, -115, 1582, 13893, 9279, 7452>>,
        <<1, -116, 1341, 393, 2627, 16014>>, <<1, -117, 1128, 5076, 8312, 12130>>,
        <<1, -119, 1885, 10952, 13892, 7829>>, <<1, -120, 1564, 16000, 6179, 15898>>,
        <<1, -121, 1290, 790, 13064, 14401>>, <<1, -122, 1056, 4606, 801, 818>>,
        <<1, -124, 1718, 3560, 5672, 997>>, <<1, -125, 1388, 3744, 9790, 14858>>,
        <<1, -126, 1114, 3867, 13894, 11229>>, <<1, -128, 1776, 15591, 13270, 14240>>,
        <<1, -129, 1407, 11713, 10087, 11110>>, <<1, -130, 1108, 129, 4451, 13127>>,
        <<1, -132, 1733, 622, 4862, 8932>>, <<1, -133, 1346, 11336, 10874, 12739>>,
        <<1, -134, 1039, 13938, 7152, 10917>>, <<1, -136, 1595, 12218, 14479, 14273>>,
        <<1, -137, 1216, 12388, 14727, 4894>>, <<1, -139, 1844, 458, 3391, 8747>>,
        <<1, -140, 1388, 11672, 4576, 13296>>, <<1, -141, 1039, 6625, 7948, 13213>>,
        <<1, -143, 1546, 7060, 2635, 4205>>, <<1, -144, 1143, 6908, 4728, 13418>>,
        <<1, -146, 1680, 11338, 12083, 1647>>, <<1, -147, 1227, 13286, 14517, 7383>>,
        <<1, -149, 1783, 4083, 14843, 5689>>, <<1, -150, 1287, 5177, 15077, 14761>>,
        <<1, -152, 1847, 11094, 2365, 14711>>, <<1, -153, 1318, 3699, 5807, 14883>>,
        <<1, -155, 1870, 675, 10525, 4285>>, <<1, -156, 1318, 12409, 5244, 4217>>,
        <<1, -158, 1849, 4784, 197, 12904>>, <<1, -159, 1289, 3616, 137, 14049>>,
        <<1, -161, 1787, 5385, 7638, 7454>>, <<1, -162, 1231, 15467, 12577, 8110>>,
        <<1, -164, 1688, 11998, 8404, 12481>>, <<1, -165, 1150, 16049, 6552, 2411>>,
        <<1, -167, 1560, 3551, 6697, 4757>>, <<1, -168, 1051, 10449, 16191, 2712>>,
        <<1, -170, 1409, 14550, 101, 9126>>, <<1, -172, 1879, 13938, 11058, 1735>>,
        <<1, -173, 1246, 6926, 13387, 172>>, <<1, -175, 1643, 15246, 11456, 16251>>,
        <<1, -176, 1078, 4539, 3110, 8330>>, <<1, -178, 1406, 15560, 7212, 12390>>,
        <<1, -180, 1826, 674, 1692, 2665>>, <<1, -181, 1178, 11704, 9067, 8629>>,
        <<1, -183, 1513, 11754, 5090, 15963>>, <<1, -185, 1933, 12356, 13022, 15758>>,
        <<1, -186, 1228, 12118, 6227, 1540>>, <<1, -188, 1553, 7086, 3288, 7460>>,
        <<1, -190, 1953, 13135, 3629, 4797>>, <<1, -191, 1222, 6201, 7227, 12823>>,
        <<1, -193, 1521, 12066, 15350, 14542>>, <<1, -195, 1884, 12949, 13607, 5893>>,
        <<1, -196, 1161, 5496, 12521, 11412>>, <<1, -198, 1423, 15549, 3909, 2182>>,
        <<1, -200, 1737, 3569, 1820, 847>>, <<1, -201, 1054, 7057, 1186, 3492>>,
        <<1, -203, 1273, 10957, 10679, 5504>>, <<1, -205, 1530, 14946, 6217, 16287>>,
        <<1, -207, 1831, 1493, 690, 14810>>, <<1, -208, 1089, 11837, 13917, 15979>>,
        <<1, -210, 1290, 12112, 11713, 4907>>, <<1, -212, 1521, 7391, 12461, 6276>>,
        <<1, -214, 1784, 12767, 1700, 2034>>, <<1, -215, 1041, 13645, 9223, 9196>>,
        <<1, -217, 1210, 8365, 262, 6100>>, <<1, -219, 1399, 13633, 6592, 16273>>,
        <<1, -221, 1611, 2089, 7588, 3084>>, <<1, -223, 1845, 10008, 10846, 5524>>,
        <<1, -224, 1052, 2796, 9245, 14072>>, <<1, -226, 1194, 1497, 4472, 12968>>,
        <<1, -228, 1348, 14434, 7783, 4274>>, <<1, -230, 1516, 11700, 5429, 10640>>,
        <<1, -232, 1697, 9939, 3822, 6723>>, <<1, -234, 1891, 6510, 4408, 7446>>,
        <<1, -235, 1048, 14185, 6019, 6615>>, <<1, -237, 1158, 389, 11612, 14269>>,
        <<1, -239, 1272, 12827, 512, 11461>>, <<1, -241, 1392, 10508, 5850, 13978>>,
        <<1, -243, 1516, 16127, 12224, 9983>>, <<1, -245, 1645, 1396, 15004, 9726>>,
        <<1, -247, 1776, 1798, 2570, 7091>>, <<1, -249, 1909, 2004, 16332, 1204>>,
        <<1, -251, 2043, 1570, 13454, 1287>>, <<1, -252, 1088, 7562, 2731, 13864>>,
        <<1, -254, 1154, 11726, 11161, 5972>>, <<1, -256, 1219, 11464, 9519, 13828>>,
        <<1, -258, 1282, 12905, 407, 13997>>, <<1, -260, 1343, 5709, 356, 13403>>,
        <<1, -262, 1400, 12394, 9334, 3992>>, <<1, -264, 1454, 6594, 8715, 10196>>,
        <<1, -266, 1503, 11538, 14564, 15674>>, <<1, -268, 1548, 1924, 14165, 9678>>,
        <<1, -270, 1587, 2386, 7088, 0>>, <<1, -272, 1620, 5726, 14228, 9416>>,
        <<1, -274, 1647, 5822, 5181, 5704>>, <<1, -276, 1667, 14120, 12860, 531>>,
        <<1, -278, 1681, 10581, 9039, 9315>>, <<1, -280, 1688, 9276, 10155, 10285>>,
        <<1, -282, 1688, 9276, 10155, 11102>>, <<1, -284, 1681, 11044, 5566, 12623>>,
        <<1, -286, 1668, 31, 14446, 2303>>, <<1, -288, 1647, 12170, 4055, 8604>>,
        <<1, -290, 1621, 2724, 15088, 16169>>, <<1, -292, 1588, 10039, 11693, 5848>>,
        <<1, -294, 1550, 7963, 12330, 4529>>, <<1, -296, 1507, 4020, 16164, 1221>>,
        <<1, -298, 1459, 6493, 15910, 15594>>, <<1, -300, 1407, 7881, 15280, 2513>>,
        <<1, -302, 1352, 1121, 3712, 14055>>, <<1, -304, 1293, 12188, 4580, 12617>>,
        <<1, -306, 1233, 1632, 15630, 619>>, <<1, -308, 1170, 11878, 176, 11315>>,
        <<1, -310, 1107, 3231, 16043, 52>>, <<1, -312, 1043, 1210, 4865, 16222>>,
        <<1, -315, 1957, 12606, 2579, 7803>>, <<1, -317, 1830, 4126, 10572, 2239>>,
        <<1, -319, 1704, 8345, 9970, 13619>>, <<1, -321, 1581, 6060, 11243, 15445>>,
        <<1, -323, 1461, 9325, 2944, 15610>>, <<1, -325, 1345, 12233, 15756, 15049>>,
        <<1, -327, 1234, 7280, 1888, 10560>>, <<1, -329, 1128, 1743, 15164, 6925>>,
        <<1, -331, 1027, 1343, 3535, 14512>>, <<1, -334, 1863, 4203, 1115, 11547>>,
        <<1, -336, 1683, 13628, 11930, 13223>>, <<1, -338, 1516, 1146, 11346, 13017>>,
        <<1, -340, 1360, 64, 14515, 10726>>, <<1, -342, 1215, 8760, 1930, 15764>>,
        <<1, -344, 1082, 7322, 10090, 16104>>, <<1, -347, 1920, 13947, 9267, 16015>>,
        <<1, -349, 1698, 2357, 9618, 626>>, <<1, -351, 1495, 13728, 14387, 126>>,
        <<1, -353, 1312, 14642, 15692, 2948>>, <<1, -355, 1148, 3175, 4738, 14138>>,
        <<1, -358, 2001, 2257, 4514, 3164>>, <<1, -360, 1737, 10531, 712, 16117>>,
        <<1, -362, 1503, 8066, 2940, 14873>>, <<1, -364, 1296, 4870, 6588, 2929>>,
        <<1, -366, 1113, 11799, 8660, 1646>>, <<1, -369, 1907, 25, 15001, 910>>,
        <<1, -371, 1626, 15604, 1569, 14865>>, <<1, -373, 1383, 3161, 12809, 4282>>,
        <<1, -375, 1171, 14284, 1067, 6211>>, <<1, -378, 1978, 13121, 9002, 2888>>,
        <<1, -380, 1664, 15107, 15596, 14956>>, <<1, -382, 1396, 281, 5026, 7656>>,
        <<1, -384, 1166, 8763, 11831, 2072>>, <<1, -387, 1942, 14708, 1140, 4507>>,
        <<1, -389, 1612, 7748, 7633, 10016>>, <<1, -391, 1333, 11574, 426, 13578>>,
        <<1, -393, 1099, 6662, 7879, 9807>>, <<1, -396, 1806, 7085, 9140, 10860>>,
        <<1, -398, 1479, 1513, 2755, 15983>>, <<1, -400, 1207, 303, 4824, 6011>>,
        <<1, -403, 1963, 6828, 8284, 10462>>, <<1, -405, 1591, 9944, 6280, 6337>>,
        <<1, -407, 1285, 15304, 4206, 2545>>, <<1, -409, 1035, 8809, 8199, 8643>>,
        <<1, -412, 1662, 5087, 4108, 2208>>, <<1, -414, 1329, 13900, 3286, 10049>>,
        <<1, -416, 1060, 6586, 4119, 13962>>, <<1, -419, 1685, 9668, 13593, 7714>>,
        <<1, -421, 1335, 5531, 15237, 1777>>, <<1, -423, 1054, 7231, 7843, 2334>>,
        <<1, -426, 1659, 14660, 8964, 2261>>, <<1, -428, 1302, 4864, 4504, 2967>>,
        <<1, -431, 2036, 15170, 1163, 10471>>, <<1, -433, 1587, 14600, 2582, 2207>>,
        <<1, -435, 1233, 14789, 1902, 3023>>, <<1, -438, 1911, 9336, 1282, 6469>>,
        <<1, -440, 1476, 364, 15092, 14362>>, <<1, -442, 1136, 1934, 12961, 1096>>,
        <<1, -445, 1743, 7812, 2990, 12277>>, <<1, -447, 1333, 9313, 14665, 7342>>,
        <<1, -450, 2033, 11336, 8028, 12636>>, <<1, -452, 1545, 14078, 7838, 4094>>,
        <<1, -454, 1171, 6495, 13775, 5755>>, <<1, -457, 1769, 12908, 5594, 16181>>,
        <<1, -459, 1332, 13159, 11697, 8452>>, <<1, -462, 2001, 4182, 6776, 2009>>,
        <<1, -464, 1497, 14287, 9795, 16080>>, <<1, -466, 1117, 11112, 294, 15810>>,
        <<1, -469, 1662, 14534, 7631, 13244>>, <<1, -471, 1233, 4355, 3917, 2505>>,
        <<1, -474, 1823, 12100, 6587, 47>>, <<1, -476, 1344, 6346, 202, 12659>>,
        <<1, -479, 1976, 1431, 15892, 5458>>, <<1, -481, 1447, 15465, 3329, 12638>>,
        <<1, -483, 1057, 12769, 9005, 13925>>, <<1, -486, 1540, 14493, 6320, 14292>>,
        <<1, -488, 1118, 15986, 4785, 3651>>, <<1, -491, 1620, 5841, 9214, 2692>>,
        <<1, -493, 1169, 11875, 12759, 5349>>, <<1, -496, 1683, 13954, 678, 8105>>,
        <<1, -498, 1208, 6737, 4534, 12554>>, <<1, -501, 1729, 5557, 10285, 6090>>,
        <<1, -503, 1233, 13067, 5134, 5780>>, <<1, -506, 1755, 6124, 4438, 15098>>,
        <<1, -508, 1245, 1486, 4672, 8720>>, <<1, -511, 1761, 2814, 11263, 7889>>,
        <<1, -513, 1241, 16095, 16371, 11452>>, <<1, -516, 1746, 10643, 9001, 431>>,
        <<1, -518, 1224, 10852, 8382, 10217>>, <<1, -521, 1712, 6912, 7214, 8553>>,
        <<1, -523, 1193, 13151, 6433, 13926>>, <<1, -526, 1659, 12449, 13099, 5791>>,
        <<1, -528, 1150, 8443, 12990, 1777>>, <<1, -531, 1590, 8424, 877, 12193>>,
        <<1, -533, 1096, 4695, 10324, 5721>>, <<1, -536, 1507, 131, 16361, 8148>>,
        <<1, -538, 1032, 14633, 9373, 2015>>, <<1, -541, 1411, 14909, 2119, 4555>>,
        <<1, -544, 1924, 10071, 10119, 15664>>, <<1, -546, 1308, 1551, 5554, 11124>>,
        <<1, -549, 1773, 3195, 3160, 10861>>, <<1, -551, 1198, 8241, 3724, 10356>>,
        <<1, -554, 1615, 10838, 2667, 11177>>, <<1, -556, 1086, 153, 13573, 5214>>,
        <<1, -559, 1455, 15870, 913, 1322>>, <<1, -562, 1946, 9996, 2118, 8971>>,
        <<1, -564, 1297, 12125, 6873, 12742>>, <<1, -567, 1725, 9917, 12934, 10167>>,
        <<1, -569, 1144, 2479, 15165, 6966>>, <<1, -572, 1513, 2169, 10776, 3576>>,
        <<1, -575, 1995, 11452, 2168, 8980>>, <<1, -577, 1312, 8768, 6372, 5203>>,
        <<1, -580, 1721, 13440, 8359, 9516>>, <<1, -582, 1126, 5541, 12101, 79>>,
        <<1, -585, 1469, 10823, 2384, 8311>>, <<1, -588, 1912, 8492, 1879, 12639>>,
        <<1, -590, 1241, 1676, 4705, 13295>>, <<1, -593, 1606, 8514, 13653, 3356>>,
        <<1, -595, 1037, 208, 6385, 15143>>, <<1, -598, 1335, 4202, 3467, 2100>>,
        <<1, -601, 1714, 12295, 830, 15308>>, <<1, -603, 1098, 2627, 11067, 11810>>,
        <<1, -606, 1402, 14508, 3845, 4078>> >>) @@
    (64 :> <<
        <<1, -145, 1626, 7495, 3207, 9420>>, <<1, -139, 1626, 7495, 3207, 9398>>,
        <<1, -134, 1626, 7495, 3207, 9414>>, <<1, -129, 1084, 4996, 13061, 811>>,
        <<1, -125, 1084, 4996, 13061, 813>>, <<1, -122, 1734, 14548, 7790, 7864>>,
        <<1, -118, 1156, 9698, 16116, 5194>>, <<1, -115, 1321, 13425, 2034, 10629>>,
        <<1, -112, 1321, 13425, 2034, 10662>>, <<1, -109, 1174, 15574, 5449, 7666>>,
        <<1, -107, 1879, 15088, 8719, 2430>>, <<1, -104, 1367, 3526, 3362, 4716>>,
        <<1, -102, 1822, 15624, 4483, 792>>, <<1, -99, 1121, 13395, 14101, 9332>>,
        <<1, -97, 1282, 1266, 2072, 10666>>, <<1, -95, 1367, 8996, 6579, 14676>>,
        <<1, -93, 1367, 8996, 6579, 14656>>, <<1, -91, 1287, 1720, 13902, 15689>>,
        <<1, -89, 1144, 1529, 10537, 12124>>, <<1, -88, 1926, 14648, 10849, 4117>>,
        <<1, -86, 1541, 8442, 2125, 13107>>, <<1, -84, 1174, 7992, 7861, 2951>>,
        <<1, -83, 1708, 5667, 9944, 16211>>, <<1, -81, 1188, 6792, 1219, 7663>>,
        <<1, -80, 1584, 9056, 1625, 15684>>, <<1, -79, 2028, 3727, 7979, 7737>>,
        <<1, -77, 1248, 2293, 13732, 9739>>, <<1, -76, 1479, 4539, 1105, 4848>>,
        <<1, -75, 1690, 9868, 10625, 7975>>, <<1, -74, 1865, 8064, 11724, 11030>>,
        <<1, -73, 1989, 14063, 11414, 796>>, <<1, -71, 1027, 387, 15932, 15183>>,
        <<1, -70, 1027, 387, 15932, 15256>>, <<1, -70, 1991, 13164, 9054, 14733>>,
        <<1, -69, 1874, 10462, 10449, 12722>>, <<1, -68, 1713, 15651, 5341, 967>>,
        <<1, -67, 1523, 8450, 15670, 4392>>, <<1, -66, 1317, 10408, 10010, 2970>>,
        <<1, -65, 1109, 9627, 7567, 5161>>, <<1, -65, 1820, 14118, 8217, 1995>>,
        <<1, -64, 1456, 11294, 13127, 5073>>, <<1, -63, 1136, 15209, 3452, 5431>>,
        <<1, -63, 1732, 7572, 2139, 15317>>, <<1, -62, 1289, 4492, 68, 6852>>,
        <<1, -62, 1875, 5044, 6057, 5369>>, <<1, -61, 1333, 9048, 7220, 2438>>,
        <<1, -61, 1855, 6178, 72, 8877>>, <<1, -60, 1263, 3857, 11553, 1012>>,
        <<1, -60, 1684, 5143, 9942, 12106>>, <<1, -59, 1099, 15730, 11174, 5866>>,
        <<1, -59, 1407, 15547, 12337, 1634>>, <<1, -59, 1766, 13728, 5201, 11671>>,
        <<1, -58, 1087, 4667, 4461, 5722>>, <<1, -58, 1312, 15528, 2914, 3828>>,
        <<1, -58, 1556, 1412, 15590, 3630>>, <<1, -58, 1810, 11772, 7417, 4291>>,
        <<1, -57, 1034, 11408, 4238, 6988>>, <<1, -57, 1161, 12521, 13669, 8733>>,
        <<1, -57, 1281, 15512, 1524, 7506>>, <<1, -57, 1390, 9606, 9984, 8171>>,
        <<1, -57, 1483, 4785, 11742, 6299>>, <<1, -57, 1556, 3946, 11782, 11599>>,
        <<1, -57, 1606, 7245, 2120, 16147>>, <<1, -57, 1631, 15422, 1634, 8651>>,
        <<1, -57, 1631, 15422, 1634, 8447>>, <<1, -57, 1606, 13672, 7658, 14075>>,
        <<1, -57, 1558, 2335, 7923, 4331>>, <<1, -57, 1488, 6143, 8302, 1657>>,
        <<1, -57, 1400, 13492, 3958, 10876>>, <<1, -57, 1299, 5153, 10082, 15511>>,
        <<1, -57, 1187, 15478, 8282, 7838>>, <<1, -57, 1070, 13490, 15311, 12329>>,
        <<1, -58, 1903, 11240, 12657, 5144>>, <<1, -58, 1668, 16139, 3241, 7581>>,
        <<1, -58, 1443, 7316, 1032, 3246>>, <<1, -58, 1231, 12141, 4594, 8801>>,
        <<1, -58, 1037, 4188, 419, 13312>>, <<1, -59, 1724, 4408, 9209, 263>>,
        <<1, -59, 1414, 12859, 8816, 6881>>, <<1, -59, 1146, 2536, 15438, 2126>>,
        <<1, -60, 1833, 13889, 8317, 247>>, <<1, -60, 1448, 15828, 15471, 7001>>,
        <<1, -60, 1130, 14751, 15671, 12193>>, <<1, -61, 1744, 641, 7784, 7410>>,
        <<1, -61, 1328, 12971, 12952, 11726>>, <<1, -62, 2001, 65, 15457, 8116>>,
        <<1, -62, 1489, 1954, 3120, 11875>>, <<1, -62, 1095, 7275, 8886, 16023>>,
        <<1, -63, 1593, 6114, 3989, 12358>>, <<1, -63, 1145, 13048, 16123, 8633>>,
        <<1, -64, 1629, 9456, 5454, 15694>>, <<1, -64, 1146, 1249, 4736, 10800>>,
        <<1, -65, 1594, 8861, 10151, 14715>>, <<1, -65, 1097, 5217, 7514, 12577>>,
        <<1, -66, 1494, 3618, 10930, 937>>, <<1, -67, 2013, 4358, 4724, 71>>,
        <<1, -67, 1342, 2905, 8610, 10324>>, <<1, -68, 1771, 1976, 1903, 11121>>,
        <<1, -68, 1156, 10652, 13280, 7218>>, <<1, -69, 1495, 7650, 290, 3370>>,
        <<1, -70, 1914, 3238, 6925, 1291>>, <<1, -70, 1212, 15678, 6010, 5369>>,
        <<1, -71, 1522, 2327, 796, 372>>, <<1, -72, 1891, 9731, 12919, 5811>>,
        <<1, -72, 1164, 947, 9210, 10769>>, <<1, -73, 1419, 687, 149, 8879>>,
        <<1, -74, 1713, 9176, 2653, 9769>>, <<1, -74, 1024, 15288, 5262, 2279>>,
        <<1, -75, 1214, 12051, 5629, 12790>>, <<1, -76, 1426, 7838, 15329, 3908>>,
        <<1, -77, 1659, 14781, 9794, 9891>>, <<1, -78, 1914, 1989, 14394, 5183>>,
        <<1, -78, 1093, 12839, 15247, 459>>, <<1, -79, 1238, 15994, 4221, 12749>>,
        <<1, -80, 1391, 2149, 5602, 8985>>, <<1, -81, 1548, 6381, 7518, 2230>>,
        <<1, -82, 1708, 9301, 7730, 14622>>, <<1, -83, 1869, 3314, 4816, 13715>>,
        <<1, -84, 2027, 9982, 2448, 2080>>, <<1, -84, 1090, 7846, 13157, 2497>>,
        <<1, -85, 1163, 2908, 9665, 4436>>, <<1, -86, 1230, 7680, 10224, 6053>>,
        <<1, -87, 1290, 16116, 1057, 16192>>, <<1, -88, 1343, 7580, 2699, 7074>>,
        <<1, -89, 1386, 13109, 13885, 4966>>, <<1, -90, 1420, 1365, 14087, 8122>>,
        <<1, -91, 1442, 10229, 11450, 6902>>, <<1, -92, 1453, 16115, 9863, 7943>>,
        <<1, -93, 1453, 16115, 9863, 7931>>, <<1, -94, 1442, 11672, 6738, 13846>>,
        <<1, -95, 1420, 8468, 1593, 15041>>, <<1, -96, 1387, 16153, 8186, 1194>>,
        <<1, -97, 1345, 15167, 8434, 7693>>, <<1, -98, 1295, 5358, 3436, 3593>>,
        <<1, -99, 1237, 5362, 13552, 15750>>, <<1, -100, 1173, 2778, 14063, 13994>>,
        <<1, -101, 1104, 2615, 6490, 3547>>, <<1, -102, 1031, 10217, 203, 14603>>,
        <<1, -104, 1913, 12067, 4414, 14305>>, <<1, -105, 1762, 4747, 4890, 8969>>,
        <<1, -106, 1611, 3872, 4471, 6533>>, <<1, -107, 1462, 11184, 5918, 4745>>,
        <<1, -108, 1318, 7774, 1181, 1839>>, <<1, -109, 1180, 2833, 15837, 2965>>,
        <<1, -110, 1049, 698, 10436, 9956>>, <<1, -112, 1852, 1685, 7013, 11421>>,
        <<1, -113, 1623, 12475, 1884, 10408>>, <<1, -114, 1413, 14540, 11895, 267>>,
        <<1, -115, 1222, 13461, 6302, 4540>>, <<1, -116, 1050, 7825, 8382, 15792>>,
        <<1, -118, 1792, 13355, 8845, 9070>>, <<1, -119, 1519, 12080, 12706, 6737>>,
        <<1, -120, 1279, 12760, 3801, 9807>>, <<1, -121, 1070, 10889, 6500, 717>>,
        <<1, -123, 1779, 13207, 15273, 9495>>, <<1, -124, 1469, 12704, 2465, 9141>>,
        <<1, -125, 1205, 15885, 4123, 8702>>, <<1, -127, 1966, 6909, 2445, 1385>>,
        <<1, -128, 1593, 827, 4262, 3546>>, <<1, -129, 1282, 7466, 14353, 14041>>,
        <<1, -130, 1025, 15803, 14759, 14569>>, <<1, -132, 1631, 5692, 4337, 8579>>,
        <<1, -133, 1288, 15824, 13136, 3326>>, <<1, -135, 2024, 6358, 13997, 351>>,
        <<1, -136, 1580, 167, 11324, 2164>>, <<1, -137, 1225, 11549, 3919, 4080>>,
        <<1, -139, 1890, 3993, 714, 6303>>, <<1, -140, 1448, 13263, 12222, 6812>>,
        <<1, -141, 1103, 14006, 10872, 11564>>, <<1, -143, 1672, 1827, 13852, 5271>>,
        <<1, -144, 1259, 26, 16212, 9151>>, <<1, -146, 1884, 13454, 3384, 4030>>,
        <<1, -147, 1402, 10774, 7852, 13761>>, <<1, -148, 1037, 13180, 10734, 13718>>,
        <<1, -150, 1526, 14495, 14098, 14703>>, <<1, -151, 1116, 13224, 2073, 8305>>,
        <<1, -153, 1624, 7319, 7484, 7201>>, <<1, -154, 1174, 12142, 15964, 13619>>,
        <<1, -156, 1689, 8443, 10626, 10810>>, <<1, -157, 1208, 2376, 11260, 2842>>,
        <<1, -159, 1718, 4108, 5820, 280>>, <<1, -160, 1215, 1909, 10542, 10896>>,
        <<1, -162, 1709, 2866, 2226, 2782>>, <<1, -163, 1195, 8003, 3974, 6015>>,
        <<1, -165, 1663, 4723, 13365, 7468>>, <<1, -166, 1150, 13364, 7476, 3073>>,
        <<1, -168, 1583, 15046, 13460, 15159>>, <<1, -169, 1084, 2939, 12630, 14336>>,
        <<1, -171, 1476, 5397, 7787, 7198>>, <<1, -173, 1999, 11211, 13408, 11354>>,
        <<1, -174, 1347, 2551, 12999, 13941>>, <<1, -176, 1805, 10025, 4471, 1942>>,
        <<1, -177, 1203, 12144, 13903, 7069>>, <<1, -179, 1596, 11015, 12414, 9438>>,
        <<1, -180, 1053, 7774, 13933, 15115>>, <<1, -182, 1383, 376, 9554, 8916>>,
        <<1, -184, 1806, 6510, 7798, 5560>>, <<1, -185, 1173, 11465, 11969, 13611>>,
        <<1, -187, 1517, 8370, 1243, 9428>>, <<1, -189, 1952, 2863, 11397, 4120>>,
        <<1, -190, 1249, 6420, 4672, 13591>>, <<1, -192, 1591, 4345, 16303, 8894>>,
        <<1, -194, 2016, 10698, 12551, 365>>, <<1, -195, 1271, 9570, 13886, 6147>>,
        <<1, -197, 1595, 11689, 3612, 2136>>, <<1, -199, 1992, 11400, 6428, 14498>>,
        <<1, -200, 1238, 2947, 15924, 11834>>, <<1, -202, 1531, 4516, 7346, 15353>>,
        <<1, -204, 1884, 10599, 15344, 945>>, <<1, -205, 1154, 3826, 7986, 3358>>,
        <<1, -207, 1407, 1075, 13012, 6581>>, <<1, -209, 1707, 2469, 15865, 3453>>,
        <<1, -210, 1030, 12001, 12979, 6687>>, <<1, -212, 1238, 13347, 13215, 2385>>,
        <<1, -214, 1481, 15508, 1721, 9963>>, <<1, -216, 1764, 9016, 1440, 4340>>,
        <<1, -217, 1045, 10804, 3280, 12339>>, <<1, -219, 1233, 9650, 6135, 8384>>,
        <<1, -221, 1448, 10130, 891, 13089>>, <<1, -223, 1693, 5931, 5157, 4007>>,
        <<1, -225, 1970, 7497, 11065, 5909>>, <<1, -226, 1141, 4268, 6705, 5999>>,
        <<1, -228, 1316, 789, 3747, 830>>, <<1, -230, 1510, 13102, 2979, 810>>,
        <<1, -232, 1726, 10292, 12766, 13836>>, <<1, -234, 1964, 8506, 14962, 13418>>,
        <<1, -235, 1112, 10617, 11809, 4744>>, <<1, -237, 1254, 12984, 10430, 15293>>,
        <<1, -239, 1408, 14579, 3951, 1898>>, <<1, -241, 1575, 57, 4631, 10407>>,
        <<1, -243, 1753, 776, 1735, 15536>>, <<1, -245, 1942, 12633, 14477, 13115>>,
        <<1, -246, 1071, 14314, 15897, 3698>>, <<1, -248, 1177, 11157, 6426, 10608>>,
        <<1, -250, 1288, 6605, 169, 3024>>, <<1, -252, 1403, 8798, 12873, 2672>>,
        <<1, -254, 1522, 7878, 4522, 7903>>, <<1, -256, 1644, 8786, 6405, 15530>>,
        <<1, -258, 1768, 14958, 2209, 5813>>, <<1, -260, 1894, 12046, 1132, 8578>>,
        <<1, -262, 2021, 834, 3392, 7284>>, <<1, -263, 1073, 6901, 7988, 5267>>,
        <<1, -265, 1135, 8519, 6419, 5211>>, <<1, -267, 1196, 4390, 5549, 2800>>,
        <<1, -269, 1255, 1651, 12536, 14413>>, <<1, -271, 1311, 7410, 2801, 3396>>,
        <<1, -273, 1364, 12506, 11706, 8340>>, <<1, -275, 1414, 8053, 14056, 11006>>,
        <<1, -277, 1460, 1971, 7639, 6532>>, <<1, -279, 1501, 2750, 11144, 1702>>,
        <<1, -281, 1537, 3209, 14950, 7822>>, <<1, -283, 1567, 13391, 7611, 4417>>,
        <<1, -285, 1592, 11523, 8512, 3115>>, <<1, -287, 1611, 9652, 10426, 6398>>,
        <<1, -289, 1624, 4568, 5348, 1292>>, <<1, -291, 1630, 10625, 13657, 9213>>,
        <<1, -293, 1630, 10625, 13657, 8371>>, <<1, -295, 1624, 4974, 6591, 11856>>,
        <<1, -297, 1611, 11667, 4127, 7157>>, <<1, -299, 1593, 714, 14327, 8789>>,
        <<1, -301, 1568, 8769, 13855, 1610>>, <<1, -303, 1538, 7974, 1662, 10442>>,
        <<1, -305, 1503, 4164, 8128, 2462>>, <<1, -307, 1463, 3991, 5855, 15400>>,
        <<1, -309, 1418, 14793, 1210, 4413>>, <<1, -311, 1370, 11693, 15698, 4998>>,
        <<1, -313, 1319, 3000, 12151, 10304>>, <<1, -315, 1264, 13677, 912, 6013>>,
        <<1, -317, 1208, 3283, 2583, 4775>>, <<1, -319, 1149, 13295, 15918, 16352>>,
        <<1, -321, 1090, 3140, 3928, 1108>>, <<1, -323, 1029, 13909, 4013, 549>>,
        <<1, -326, 1938, 8834, 5626, 5371>>, <<1, -328, 1817, 13505, 8096, 10894>>,
        <<1, -330, 1698, 6638, 11630, 14930>>, <<1, -332, 1581, 996, 12018, 14174>>,
        <<1, -334, 1466, 8047, 16134, 4208>>, <<1, -336, 1355, 5131, 1247, 14042>>,
        <<1, -338, 1248, 953, 2681, 9244>>, <<1, -340, 1145, 2812, 7863, 1554>>,
        <<1, -342, 1047, 230, 13742, 11887>>, <<1, -345, 1907, 11906, 14661, 10215>>,
        <<1, -347, 1731, 13714, 992, 14563>>, <<1, -349, 1566, 9974, 1708, 9979>>,
        <<1, -351, 1412, 2529, 7309, 2507>>, <<1, -353, 1268, 7560, 15303, 9227>>,
        <<1, -355, 1135, 6653, 4188, 9875>>, <<1, -358, 2025, 8729, 7072, 14741>>,
        <<1, -360, 1800, 7759, 8107, 6343>>, <<1, -362, 1594, 14470, 3213, 3108>>,
        <<1, -364, 1407, 14694, 9390, 2782>>, <<1, -366, 1238, 9211, 3700, 3581>>,
        <<1, -368, 1085, 14135, 7059, 7779>>, <<1, -371, 1897, 7869, 7806, 11649>>,
        <<1, -373, 1652, 3731, 9361, 564>>, <<1, -375, 1433, 13068, 10567, 4994>>,
        <<1, -377, 1240, 675, 2497, 1044>>, <<1, -379, 1068, 14042, 3366, 197>>,
        <<1, -382, 1836, 6972, 7982, 6655>>, <<1, -384, 1572, 5312, 3327, 5973>>,
        <<1, -386, 1341, 11742, 654, 15268>>, <<1, -388, 1141, 2093, 15743, 8659>>,
        <<1, -391, 1934, 10277, 3796, 13601>>, <<1, -393, 1634, 8791, 3586, 3957>>,
        <<1, -395, 1376, 7403, 2157, 12611>>, <<1, -397, 1155, 5193, 2187, 3298>>,
        <<1, -400, 1933, 1300, 4944, 6889>>, <<1, -402, 1611, 15547, 654, 3766>>,
        <<1, -404, 1339, 13134, 16289, 4849>>, <<1, -406, 1109, 16343, 6549, 7452>>,
        <<1, -409, 1833, 4689, 9654, 6595>>, <<1, -411, 1509, 1173, 7788, 16022>>,
        <<1, -413, 1238, 3483, 7651, 4563>>, <<1, -416, 2025, 7320, 14609, 11038>>,
        <<1, -418, 1651, 5238, 2101, 9146>>, <<1, -420, 1342, 408, 1291, 13563>>,
        <<1, -422, 1087, 3441, 7890, 7521>>, <<1, -425, 1755, 16360, 9022, 15425>>,
        <<1, -427, 1413, 10388, 9324, 11608>>, <<1, -429, 1134, 7412, 6866, 12684>>,
        <<1, -432, 1815, 2029, 7710, 1179>>, <<1, -434, 1447, 9427, 11712, 3724>>,
        <<1, -436, 1150, 14211, 12262, 12517>>, <<1, -439, 1824, 4672, 9699, 1299>>,
        <<1, -441, 1441, 6725, 16361, 2549>>, <<1, -443, 1135, 6356, 11072, 10901>>,
        <<1, -446, 1783, 3047, 15279, 6649>>, <<1, -448, 1396, 181, 9406, 9580>>,
        <<1, -450, 1089, 9332, 12137, 59>>, <<1, -453, 1695, 10191, 5790, 14670>>,
        <<1, -455, 1315, 6416, 9258, 8935>>, <<1, -458, 2034, 11212, 4619, 11099>>,
        <<1, -460, 1568, 14962, 5535, 16334>>, <<1, -462, 1206, 2154, 5731, 15288>>,
        <<1, -465, 1848, 15075, 6726, 8904>>, <<1, -467, 1412, 14846, 347, 5815>>,
        <<1, -469, 1076, 8190, 8066, 10039>>, <<1, -472, 1635, 8408, 7976, 15766>>,
        <<1, -474, 1238, 11991, 7689, 14767>>, <<1, -477, 1870, 14534, 9197, 11291>>,
        <<1, -479, 1408, 10943, 10973, 3649>>, <<1, -481, 1057, 8744, 4778, 9428>>,
        <<1, -484, 1583, 3413, 12615, 3510>>, <<1, -486, 1181, 10429, 6597, 3601>>,
        <<1, -489, 1758, 11712, 9819, 713>>, <<1, -491, 1305, 285, 6288, 12682>>,
        <<1, -494, 1931, 2032, 4759, 14474>>, <<1, -496, 1424, 11320, 4644, 14566>>,
        <<1, -498, 1048, 794, 11326, 7172>>, <<1, -501, 1537, 8817, 16006, 3775>>,
        <<1, -503, 1124, 9820, 2345, 955>>, <<1, -506, 1640, 7229, 7761, 12623>>,
        <<1, -508, 1193, 789, 7134, 6686>>, <<1, -511, 1730, 6993, 2132, 11908>>,
        <<1, -513, 1251, 6260, 8577, 4104>>, <<1, -516, 1804, 13275, 4201, 9921>>,
        <<1, -518, 1297, 13780, 5230, 7495>>, <<1, -521, 1861, 5398, 11264, 8205>>,
        <<1, -523, 1331, 107, 12357, 2942>>, <<1, -526, 1898, 4261, 1422, 1650>>,
        <<1, -528, 1349, 14316, 14118, 9206>>, <<1, -531, 1914, 8232, 15303, 13099>>,
        <<1, -533, 1353, 14783, 9827, 418>>, <<1, -536, 1909, 10425, 10114, 5599>>,
        <<1, -538, 1343, 670, 11074, 8124>>, <<1, -541, 1883, 15349, 11898, 9667>>,
        <<1, -543, 1317, 11900, 5099, 7823>>, <<1, -546, 1838, 5798, 7382, 1200>>,
        <<1, -548, 1278, 14006, 9409, 6588>>, <<1, -551, 1774, 7446, 4974, 12821>>,
        <<1, -553, 1227, 11971, 5301, 13339>>, <<1, -556, 1694, 5480, 10496, 7896>>,
        <<1, -558, 1165, 16279, 13741, 14017>>, <<1, -561, 1600, 8290, 9989, 14066>>,
        <<1, -563, 1095, 8741, 6224, 11224>>, <<1, -566, 1495, 12590, 4217, 1701>>,
        <<1, -569, 2036, 12961, 513, 9527>>, <<1, -571, 1383, 1195, 13429, 13927>>,
        <<1, -574, 1873, 6040, 13336, 4145>>, <<1, -576, 1265, 6371, 8273, 1175>>,
        <<1, -579, 1704, 15483, 4765, 15377>>, <<1, -581, 1145, 9500, 6814, 7057>>,
        <<1, -584, 1535, 7157, 13679, 14285>>, <<1, -586, 1026, 4869, 14833, 3439>>,
        <<1, -589, 1368, 6493, 3393, 8681>>, <<1, -592, 1819, 12933, 4300, 6653>>,
        <<1, -594, 1206, 14859, 7351, 2972>>, <<1, -597, 1596, 12038, 8963, 10731>>,
        <<1, -599, 1053, 8449, 11150, 4717>>, <<1, -602, 1386, 10363, 4946, 11253>>,
        <<1, -605, 1820, 6547, 7082, 563>>, <<1, -607, 1191, 14301, 9539, 9031>>,
        <<1, -610, 1556, 11992, 4434, 15613>>, <<1, -613, 2028, 1782, 9529, 16370>>,
        <<1, -615, 1317, 12385, 13760, 4714>>, <<1, -618, 1708, 1288, 3567, 7360>>,
        <<1, -620, 1104, 3480, 11574, 1562>>, <<1, -623, 1424, 1187, 6714, 446>>,
        <<1, -626, 1831, 15935, 9213, 6317>>, <<1, -628, 1175, 6569, 12193, 15829>>,
        <<1, -631, 1504, 8409, 4467, 2742>> >>) @@
    (65 :> <<
        <<1, -146, 1196, 11149, 13334, 13080>>, <<1, -140, 1215, 6204, 487, 2545>>,
        <<1, -135, 1234, 6044, 15854, 12572>>, <<1, -131, 1671, 8868, 9181, 16324>>,
        <<1, -127, 1697, 10799, 2157, 7609>>, <<1, -123, 1379, 5702, 4824, 15395>>,
        <<1, -120, 1867, 14207, 3120, 7160>>, <<1, -116, 1084, 492, 1664, 11179>>,
        <<1, -113, 1100, 15859, 12954, 11372>>, <<1, -111, 1987, 14072, 2910, 6880>>,
        <<1, -108, 1615, 2217, 10556, 11717>>, <<1, -105, 1192, 16346, 6494, 4934>>,
        <<1, -103, 1615, 8482, 6746, 6005>>, <<1, -101, 2019, 6507, 240, 15723>>,
        <<1, -98, 1171, 15918, 1748, 16139>>, <<1, -96, 1269, 10417, 15548, 1071>>,
        <<1, -94, 1289, 7764, 11951, 75>>, <<1, -92, 1232, 9590, 10459, 16174>>,
        <<1, -90, 1112, 12299, 1706, 2602>>, <<1, -89, 1903, 6378, 9385, 13020>>,
        <<1, -87, 1546, 8254, 9673, 15671>>, <<1, -85, 1196, 11458, 11776, 13934>>,
        <<1, -84, 1767, 13948, 12184, 8657>>, <<1, -82, 1249, 416, 7896, 4627>>,
        <<1, -81, 1691, 6366, 10692, 14556>>, <<1, -79, 1099, 6595, 15142, 6169>>,
        <<1, -78, 1374, 4148, 14831, 15823>>, <<1, -77, 1654, 3173, 9964, 11426>>,
        <<1, -76, 1920, 757, 15369, 9964>>, <<1, -74, 1075, 14548, 13838, 3439>>,
        <<1, -73, 1165, 8934, 9530, 886>>, <<1, -72, 1221, 15444, 13690, 13122>>,
        <<1, -71, 1241, 582, 2640, 11869>>, <<1, -70, 1222, 3800, 8062, 781>>,
        <<1, -69, 1168, 5078, 7706, 5927>>, <<1, -68, 1084, 14078, 134, 3219>>,
        <<1, -68, 1958, 12675, 8434, 4992>>, <<1, -67, 1720, 8919, 13829, 4232>>,
        <<1, -66, 1471, 8491, 2126, 9956>>, <<1, -65, 1226, 4345, 4502, 13786>>,
        <<1, -65, 1992, 11157, 1173, 1931>>, <<1, -64, 1579, 9243, 10320, 12130>>,
        <<1, -63, 1222, 4617, 3110, 1589>>, <<1, -63, 1847, 10408, 11178, 11339>>,
        <<1, -62, 1364, 11970, 6767, 8813>>, <<1, -62, 1971, 4547, 7954, 14649>>,
        <<1, -61, 1392, 12295, 5442, 3412>>, <<1, -61, 1926, 2363, 2646, 2214>>,
        <<1, -60, 1304, 2624, 938, 5279>>, <<1, -60, 1730, 137, 3585, 4380>>,
        <<1, -59, 1124, 8281, 3149, 10230>>, <<1, -59, 1433, 3165, 9796, 13596>>,
        <<1, -59, 1791, 8052, 16342, 267>>, <<1, -58, 1098, 9111, 7238, 14212>>,
        <<1, -58, 1322, 5506, 2341, 14765>>, <<1, -58, 1562, 12465, 1278, 3833>>,
        <<1, -58, 1813, 15053, 8797, 15526>>, <<1, -57, 1034, 4127, 14070, 11181>>,
        <<1, -57, 1159, 1236, 4187, 1484>>, <<1, -57, 1276, 15524, 6834, 7483>>,
        <<1, -57, 1383, 5895, 7403, 15899>>, <<1, -57, 1474, 1178, 13529, 14575>>,
        <<1, -57, 1545, 6521, 443, 2268>>, <<1, -57, 1594, 7508, 3838, 556>>,
        <<1, -57, 1619, 6089, 9017, 16222>>, <<1, -57, 1619, 6089, 9018, 40>>,
        <<1, -57, 1594, 13692, 13101, 8090>>, <<1, -57, 1547, 3747, 1706, 3643>>,
        <<1, -57, 1478, 15869, 12955, 2650>>, <<1, -57, 1393, 3789, 11254, 5786>>,
        <<1, -57, 1293, 11710, 16301, 14954>>, <<1, -57, 1184, 6336, 14462, 12479>>,
        <<1, -57, 1069, 3900, 5774, 14492>>, <<1, -58, 1904, 2008, 3101, 15778>>,
        <<1, -58, 1672, 8848, 15123, 6809>>, <<1, -58, 1449, 8761, 5461, 1934>>,
        <<1, -58, 1239, 12020, 6610, 14633>>, <<1, -58, 1046, 8657, 10474, 8974>>,
        <<1, -59, 1744, 3506, 11996, 3950>>, <<1, -59, 1435, 1848, 5307, 11325>>,
        <<1, -59, 1166, 477, 12504, 8247>>, <<1, -60, 1871, 6632, 10764, 7727>>,
        <<1, -60, 1483, 7055, 13727, 12394>>, <<1, -60, 1161, 11842, 6210, 8090>>,
        <<1, -61, 1797, 14816, 10391, 10727>>, <<1, -61, 1374, 14221, 10837, 14095>>,
        <<1, -61, 1039, 2366, 6857, 13321>>, <<1, -62, 1552, 12198, 13637, 2199>>,
        <<1, -62, 1146, 14968, 5232, 2171>>, <<1, -63, 1675, 4375, 4881, 1939>>,
        <<1, -63, 1209, 14992, 13537, 11236>>, <<1, -64, 1728, 7374, 14658, 5886>>,
        <<1, -64, 1221, 3073, 7863, 4406>>, <<1, -65, 1707, 596, 10639, 5239>>,
        <<1, -65, 1180, 6513, 36, 7501>>, <<1, -66, 1615, 4600, 15571, 10095>>,
        <<1, -66, 1093, 11136, 9177, 15278>>, <<1, -67, 1465, 12391, 11117, 15564>>,
        <<1, -68, 1944, 6072, 9064, 829>>, <<1, -68, 1276, 9944, 13894, 15045>>,
        <<1, -69, 1659, 9651, 8233, 106>>, <<1, -69, 1068, 858, 2865, 3293>>,
        <<1, -70, 1361, 3985, 760, 6791>>, <<1, -71, 1718, 1212, 641, 10369>>,
        <<1, -71, 1073, 13045, 8592, 16372>>, <<1, -72, 1329, 7569, 8298, 6476>>,
        <<1, -73, 1630, 7737, 11413, 12980>>, <<1, -74, 1980, 15525, 13101, 10895>>,
        <<1, -74, 1192, 3882, 14711, 14675>>, <<1, -75, 1421, 15303, 2064, 3222>>,
        <<1, -76, 1680, 7659, 5418, 6755>>, <<1, -77, 1968, 1885, 6788, 11299>>,
        <<1, -77, 1142, 3434, 12863, 4624>>, <<1, -78, 1314, 761, 11753, 10881>>,
        <<1, -79, 1498, 7767, 2480, 9843>>, <<1, -80, 1693, 15191, 6365, 15215>>,
        <<1, -81, 1898, 6008, 72, 2806>>, <<1, -81, 1054, 10619, 9142, 5169>>,
        <<1, -82, 1161, 14754, 2574, 4880>>, <<1, -83, 1269, 4965, 13964, 5943>>,
        <<1, -84, 1375, 1283, 11032, 1428>>, <<1, -85, 1477, 5847, 8467, 8101>>,
        <<1, -86, 1574, 3813, 10634, 5128>>, <<1, -87, 1663, 13488, 1915, 4261>>,
        <<1, -88, 1744, 5420, 4121, 15837>>, <<1, -89, 1814, 1704, 14772, 10266>>,
        <<1, -90, 1871, 11381, 6139, 6432>>, <<1, -91, 1915, 14875, 6929, 7582>>,
        <<1, -92, 1945, 13827, 13949, 12022>>, <<1, -93, 1960, 15205, 1992, 2375>>,
        <<1, -94, 1960, 15205, 1992, 1869>>, <<1, -95, 1945, 15714, 6479, 6575>>,
        <<1, -96, 1916, 7780, 12835, 8103>>, <<1, -97, 1873, 4032, 13531, 8197>>,
        <<1, -98, 1817, 5379, 10926, 12038>>, <<1, -99, 1750, 325, 14769, 12414>>,
        <<1, -100, 1672, 13322, 5685, 3441>>, <<1, -101, 1587, 5585, 12450, 10207>>,
        <<1, -102, 1495, 5261, 15528, 611>>, <<1, -103, 1398, 8221, 10161, 6278>>,
        <<1, -104, 1298, 9974, 15287, 511>>, <<1, -105, 1197, 4897, 6541, 8080>>,
        <<1, -106, 1096, 1945, 2758, 780>>, <<1, -108, 1992, 15452, 5014, 11048>>,
        <<1, -109, 1799, 3027, 5437, 5931>>, <<1, -110, 1613, 1019, 4309, 14763>>,
        <<1, -111, 1436, 4723, 246, 8156>>, <<1, -112, 1270, 3062, 4230, 7144>>,
        <<1, -113, 1115, 11546, 616, 3944>>, <<1, -115, 1946, 14209, 10202, 47>>,
        <<1, -116, 1687, 4669, 2288, 1625>>, <<1, -117, 1452, 10312, 16075, 5728>>,
        <<1, -118, 1242, 6233, 5987, 13125>>, <<1, -119, 1055, 10115, 2410, 9327>>,
        <<1, -121, 1782, 3459, 10665, 14673>>, <<1, -122, 1494, 12414, 15287, 13608>>,
        <<1, -123, 1245, 10345, 12739, 14001>>, <<1, -124, 1031, 6792, 8253, 1161>>,
        <<1, -126, 1697, 4333, 9640, 9357>>, <<1, -127, 1387, 11477, 9427, 14048>>,
        <<1, -128, 1127, 8301, 8684, 2256>>, <<1, -130, 1820, 13406, 3237, 1680>>,
        <<1, -131, 1461, 2464, 15138, 8171>>, <<1, -132, 1165, 5483, 15189, 10262>>,
        <<1, -134, 1847, 7894, 13291, 11001>>, <<1, -135, 1455, 9695, 8982, 13003>>,
        <<1, -136, 1139, 15094, 125, 12905>>, <<1, -138, 1774, 11922, 15304, 7871>>,
        <<1, -139, 1373, 4935, 530, 3>>, <<1, -140, 1056, 6316, 13010, 11928>>,
        <<1, -142, 1615, 10624, 12188, 10244>>, <<1, -143, 1228, 4436, 6583, 7492>>,
        <<1, -145, 1856, 11278, 7665, 9909>>, <<1, -146, 1395, 3266, 5949, 11423>>,
        <<1, -147, 1042, 6395, 2373, 10526>>, <<1, -149, 1548, 11373, 13356, 15216>>,
        <<1, -150, 1143, 15103, 10796, 14225>>, <<1, -152, 1680, 5524, 7714, 236>>,
        <<1, -153, 1227, 3482, 7474, 12255>>, <<1, -155, 1782, 8902, 9941, 14027>>,
        <<1, -156, 1287, 6429, 10821, 2384>>, <<1, -158, 1849, 4800, 8664, 10288>>,
        <<1, -159, 1320, 15131, 13210, 12065>>, <<1, -161, 1876, 11829, 8115, 4241>>,
        <<1, -162, 1325, 15481, 4487, 944>>, <<1, -164, 1863, 8030, 5420, 7874>>,
        <<1, -165, 1302, 7198, 2379, 2442>>, <<1, -167, 1810, 14388, 14172, 2563>>,
        <<1, -168, 1252, 3326, 7011, 2598>>, <<1, -170, 1722, 9950, 11205, 4895>>,
        <<1, -171, 1178, 10257, 10253, 11584>>, <<1, -173, 1604, 6757, 11985, 158>>,
        <<1, -174, 1086, 5258, 3506, 14749>>, <<1, -176, 1463, 7168, 8119, 15036>>,
        <<1, -178, 1961, 5046, 12571, 7640>>, <<1, -179, 1307, 8825, 13842, 4126>>,
        <<1, -181, 1734, 8029, 11674, 14705>>, <<1, -182, 1144, 9623, 8286, 6642>>,
        <<1, -184, 1502, 16277, 13363, 9146>>, <<1, -186, 1963, 11634, 11367, 6398>>,
        <<1, -187, 1276, 6743, 5750, 7085>>, <<1, -189, 1651, 1305, 1814, 164>>,
        <<1, -190, 1062, 9437, 7656, 2880>>, <<1, -192, 1360, 15315, 12630, 11461>>,
        <<1, -194, 1734, 8597, 7102, 13362>>, <<1, -195, 1099, 15442, 4504, 3671>>,
        <<1, -197, 1388, 4537, 14115, 8519>>, <<1, -199, 1743, 11952, 9181, 6795>>,
        <<1, -200, 1089, 13614, 5738, 7567>>, <<1, -202, 1355, 12624, 15291, 8197>>,
        <<1, -204, 1678, 9389, 5669, 2287>>, <<1, -205, 1034, 3144, 13587, 3994>>,
        <<1, -207, 1268, 5711, 10790, 1318>>, <<1, -209, 1548, 3587, 8017, 5666>>,
        <<1, -211, 1881, 224, 5759, 9139>>, <<1, -212, 1137, 5851, 53, 5003>>,
        <<1, -214, 1369, 671, 5222, 852>>, <<1, -216, 1640, 5334, 7917, 15853>>,
        <<1, -218, 1956, 5760, 16057, 491>>, <<1, -219, 1161, 4990, 13571, 8363>>,
        <<1, -221, 1372, 7387, 11570, 12022>>, <<1, -223, 1614, 10618, 15540, 864>>,
        <<1, -225, 1891, 480, 11705, 9971>>, <<1, -226, 1102, 6451, 12921, 15752>>,
        <<1, -228, 1279, 9244, 1832, 15386>>, <<1, -230, 1478, 9953, 14861, 3831>>,
        <<1, -232, 1701, 867, 712, 15687>>, <<1, -234, 1948, 5612, 6013, 4192>>,
        <<1, -235, 1110, 14697, 9464, 13870>>, <<1, -237, 1261, 4595, 15682, 13124>>,
        <<1, -239, 1425, 13031, 4193, 12773>>, <<1, -241, 1604, 12964, 16068, 8191>>,
        <<1, -243, 1798, 7750, 2188, 12259>>, <<1, -245, 2006, 14414, 4270, 11276>>,
        <<1, -246, 1114, 15289, 11474, 13504>>, <<1, -248, 1233, 8898, 9209, 9340>>,
        <<1, -250, 1358, 16190, 7924, 9452>>, <<1, -252, 1490, 14305, 2817, 8739>>,
        <<1, -254, 1628, 11221, 11751, 15078>>, <<1, -256, 1771, 12961, 13127, 3022>>,
        <<1, -258, 1919, 7215, 4663, 11045>>, <<1, -259, 1035, 6271, 7886, 6512>>,
        <<1, -261, 1112, 6467, 2379, 12079>>, <<1, -263, 1190, 3548, 6322, 309>>,
        <<1, -265, 1268, 4318, 4050, 11802>>, <<1, -267, 1345, 14948, 286, 4513>>,
        <<1, -269, 1422, 8339, 5497, 7666>>, <<1, -271, 1497, 6191, 4924, 8499>>,
        <<1, -273, 1569, 13625, 13883, 5120>>, <<1, -275, 1639, 2976, 2126, 5954>>,
        <<1, -277, 1704, 12270, 3522, 1721>>, <<1, -279, 1765, 14342, 907, 58>>,
        <<1, -281, 1821, 15317, 7957, 6799>>, <<1, -283, 1872, 5638, 14783, 95>>,
        <<1, -285, 1916, 9384, 5327, 8194>>, <<1, -287, 1954, 2500, 11857, 3585>>,
        <<1, -289, 1984, 11243, 13066, 6953>>, <<1, -291, 2007, 13988, 13728, 14914>>,
        <<1, -293, 2023, 6857, 13708, 4522>>, <<1, -295, 2031, 3784, 10471, 12313>>,
        <<1, -297, 2031, 3784, 10471, 13295>>, <<1, -299, 2023, 7348, 4154, 5080>>,
        <<1, -301, 2008, 38, 2871, 15259>>, <<1, -303, 1985, 1595, 2527, 9388>>,
        <<1, -305, 1955, 329, 12667, 6812>>, <<1, -307, 1918, 2178, 5627, 6647>>,
        <<1, -309, 1874, 14201, 10304, 14940>>, <<1, -311, 1825, 11681, 9605, 149>>,
        <<1, -313, 1771, 3507, 11274, 10040>>, <<1, -315, 1711, 15632, 10653, 14718>>,
        <<1, -317, 1648, 8985, 8438, 11477>>, <<1, -319, 1581, 10374, 962, 5384>>,
        <<1, -321, 1511, 14012, 6220, 8345>>, <<1, -323, 1439, 14125, 5144, 1771>>,
        <<1, -325, 1366, 4793, 217, 4016>>, <<1, -327, 1291, 12574, 10333, 10973>>,
        <<1, -329, 1216, 14457, 9971, 15944>>, <<1, -331, 1142, 3278, 9241, 11789>>,
        <<1, -333, 1068, 4009, 4046, 7224>>, <<1, -336, 1990, 16281, 553, 11233>>,
        <<1, -338, 1848, 12777, 8706, 672>>, <<1, -340, 1710, 10073, 7297, 6700>>,
        <<1, -342, 1577, 2664, 4171, 13523>>, <<1, -344, 1448, 16110, 11590, 8259>>,
        <<1, -346, 1326, 8749, 7611, 2002>>, <<1, -348, 1210, 2808, 1194, 11828>>,
        <<1, -350, 1100, 2552, 13001, 11790>>, <<1, -353, 1993, 5139, 893, 9415>>,
        <<1, -355, 1799, 8507, 14232, 8306>>, <<1, -357, 1618, 15477, 10479, 14102>>,
        <<1, -359, 1451, 7661, 14480, 10105>>, <<1, -361, 1296, 13827, 2747, 2225>>,
        <<1, -363, 1154, 11862, 16136, 13340>>, <<1, -365, 1024, 10974, 3694, 15654>>,
        <<1, -368, 1812, 5589, 11104, 13767>>, <<1, -370, 1597, 5204, 3122, 12565>>,
        <<1, -372, 1403, 807, 5842, 9383>>, <<1, -374, 1228, 4237, 5500, 15978>>,
        <<1, -376, 1071, 10404, 8977, 14914>>, <<1, -379, 1863, 11683, 12051, 16059>>,
        <<1, -381, 1615, 3572, 4983, 12357>>, <<1, -383, 1395, 3357, 14266, 644>>,
        <<1, -385, 1201, 2782, 6205, 12612>>, <<1, -387, 1030, 11579, 14138, 13486>>,
        <<1, -390, 1763, 836, 11681, 6028>>, <<1, -392, 1502, 15217, 2168, 14000>>,
        <<1, -394, 1276, 16356, 5055, 4782>>, <<1, -396, 1081, 8141, 14154, 7591>>,
        <<1, -399, 1825, 14809, 14747, 9122>>, <<1, -401, 1536, 5886, 9757, 13692>>,
        <<1, -403, 1288, 9165, 4484, 7177>>, <<1, -405, 1077, 4132, 10070, 12707>>,
        <<1, -408, 1795, 6887, 11323, 6922>>, <<1, -410, 1491, 6611, 4433, 3241>>,
        <<1, -412, 1234, 15075, 1896, 13489>>, <<1, -415, 2038, 9802, 3651, 4259>>,
        <<1, -417, 1677, 5369, 308, 756>>, <<1, -419, 1375, 11897, 14259, 4325>>,
        <<1, -421, 1124, 13231, 5166, 12053>>, <<1, -424, 1833, 8882, 4005, 4749>>,
        <<1, -426, 1489, 12336, 13494, 3829>>, <<1, -428, 1206, 10707, 160, 6755>>,
        <<1, -431, 1948, 10370, 14302, 6564>>, <<1, -433, 1568, 9159, 10853, 7099>>,
        <<1, -435, 1258, 11800, 5270, 14029>>, <<1, -438, 2013, 15603, 11710, 3390>>,
        <<1, -440, 1606, 3599, 5419, 5841>>, <<1, -442, 1277, 1909, 14379, 13354>>,
        <<1, -445, 2024, 11419, 10809, 440>>, <<1, -447, 1600, 1056, 12326, 14567>>,
        <<1, -449, 1260, 10762, 4747, 4649>>, <<1, -452, 1980, 7997, 13051, 2981>>,
        <<1, -454, 1550, 16133, 3509, 3977>>, <<1, -456, 1210, 16040, 9628, 631>>,
        <<1, -459, 1885, 5842, 5767, 14361>>, <<1, -461, 1463, 4289, 13524, 7261>>,
        <<1, -463, 1132, 4684, 13781, 3466>>, <<1, -466, 1747, 2415, 11978, 10550>>,
        <<1, -468, 1343, 15721, 10474, 10770>>, <<1, -470, 1030, 12541, 3248, 16287>>,
        <<1, -473, 1576, 7615, 7860, 5734>>, <<1, -475, 1201, 16328, 13104, 3874>>,
        <<1, -478, 1827, 9784, 13025, 15074>>, <<1, -480, 1385, 5745, 3425, 7731>>,
        <<1, -482, 1047, 1103, 10018, 14160>>, <<1, -485, 1578, 3088, 1803, 14562>>,
        <<1, -487, 1185, 15105, 12246, 8180>>, <<1, -490, 1777, 2853, 4801, 2936>>,
        <<1, -492, 1327, 12677, 13003, 2742>>, <<1, -495, 1978, 5650, 14773, 12989>>,
        <<1, -497, 1469, 10283, 4889, 3921>>, <<1, -499, 1088, 10044, 8476, 1795>>,
        <<1, -502, 1608, 2922, 14011, 1921>>, <<1, -504, 1184, 8093, 12315, 8552>>,
        <<1, -507, 1739, 15314, 503, 5905>>, <<1, -509, 1274, 5216, 2214, 11695>>,
        <<1, -512, 1861, 5962, 4339, 8407>>, <<1, -514, 1355, 10078, 15735, 2469>>,
        <<1, -517, 1969, 818, 11322, 14914>>, <<1, -519, 1426, 866, 12307, 13101>>,
        <<1, -521, 1029, 15189, 8889, 570>>, <<1, -524, 1483, 9035, 11578, 8959>>,
        <<1, -526, 1065, 8752, 11755, 14417>>, <<1, -529, 1526, 6309, 11469, 4557>>,
        <<1, -531, 1090, 4506, 15214, 1753>>, <<1, -534, 1553, 4400, 14492, 13766>>,
        <<1, -536, 1103, 6797, 715, 12852>>, <<1, -539, 1563, 6907, 7576, 11178>>,
        <<1, -541, 1104, 9688, 10161, 6608>>, <<1, -544, 1556, 9923, 10634, 3737>>,
        <<1, -546, 1093, 13615, 8801, 2132>>, <<1, -549, 1533, 2169, 13616, 8993>>,
        <<1, -551, 1071, 8915, 12688, 2214>>, <<1, -554, 1493, 13791, 2797, 13053>>,
        <<1, -556, 1038, 8185, 9918, 476>>, <<1, -559, 1440, 864, 15500, 10563>>,
        <<1, -562, 1991, 9213, 14813, 13410>>, <<1, -564, 1373, 8049, 5131, 11743>>,
        <<1, -567, 1889, 7518, 15208, 3859>>, <<1, -569, 1296, 3256, 57, 13747>>,
        <<1, -572, 1773, 12216, 6977, 14443>>, <<1, -574, 1210, 7046, 9664, 28>>,
        <<1, -577, 1647, 11565, 2604, 4653>>, <<1, -579, 1118, 8963, 4120, 11714>>,
        <<1, -582, 1514, 11455, 1142, 13124>>, <<1, -585, 2045, 13556, 12608, 2903>>,
        <<1, -587, 1378, 302, 13416, 1466>>, <<1, -590, 1851, 9847, 13073, 9968>>,
        <<1, -592, 1240, 12510, 12983, 5658>>, <<1, -595, 1658, 9900, 12806, 14932>>,
        <<1, -597, 1105, 12061, 13999, 2284>>, <<1, -600, 1470, 8917, 14134, 4790>>,
        <<1, -603, 1950, 11829, 13399, 10272>>, <<1, -605, 1290, 9077, 485, 5639>>,
        <<1, -608, 1703, 4411, 9705, 12559>>, <<1, -610, 1121, 2281, 10743, 14192>>,
        <<1, -613, 1472, 3327, 1696, 1528>>, <<1, -616, 1928, 5348, 6348, 5849>>,
        <<1, -618, 1259, 11644, 12380, 4595>>, <<1, -621, 1641, 11932, 2830, 7341>>,
        <<1, -623, 1067, 2021, 8393, 6527>>, <<1, -626, 1383, 13121, 14438, 13983>>,
        <<1, -629, 1789, 16239, 15824, 4380>>, <<1, -631, 1154, 13648, 8095, 1576>>,
        <<1, -634, 1486, 6860, 16259, 4782>>, <<1, -637, 1908, 8000, 1457, 15134>>,
        <<1, -639, 1222, 3024, 12555, 14747>> >>)

\* poisson.cdf(k, mean) for k = 0, 1, ... up to the first k where it is 1.0,
\* a row of floats for each mean
PoissonCdfTable ==
    (0 :> <<
        <<1, -52, 1024, 0, 0, 0>> >>) @@
    (1 :> <<
        <<1, -54, 1506, 13667, 6323, 12088>>, <<1, -53, 1506, 13667, 6323, 12088>>,
        <<1, -53, 1883, 8892, 3808, 11014>>, <<1, -53, 2009, 1839, 2970, 5194>>,
        <<1, -53, 2040, 8267, 15048, 11932>>, <<1, -53, 2046, 12830, 7634, 172>>,
        <<1, -53, 2047, 13590, 14590, 3673>>, <<1, -53, 2047, 16040, 1540, 8854>>,
        <<1, -53, 2047, 16346, 4005, 5406>>, <<1, -53, 2047, 16380, 4279, 3203>>,
        <<1, -53, 2047, 16383, 10860, 2982>>, <<1, -53, 2047, 16383, 15926, 13388>>,
        <<1, -53, 2047, 16383, 16349, 602>>, <<1, -53, 2047, 16383, 16381, 8441>>,
        <<1, -53, 2047, 16383, 16383, 13682>>, <<1, -53, 2047, 16383, 16383, 16216>>,
        <<1, -53, 2047, 16383, 16383, 16374>>, <<1, -53, 2047, 16383, 16383, 16383>>,
        <<1, -52, 1024, 0, 0, 0>> >>) @@
    (2 :> <<
        <<1, -55, 1108, 10922, 3838, 460>>, <<1, -54, 1662, 16383, 5757, 689>>,
        <<1, -53, 1385, 13652, 12989, 8767>>, <<1, -53, 1755, 6370, 14268, 14381>>,
        <<1, -53, 1940, 2729, 14908, 8996>>, <<1, -53, 2014, 1273, 8610, 13396>>,
        <<1, -53, 2038, 11710, 11972, 14863>>, <<1, -53, 2045, 12352, 3571, 3579>>,
        <<1, -53, 2047, 8416, 9662, 13046>>, <<1, -53, 2047, 14823, 12836, 15150>>,
        <<1, -53, 2047, 16105, 3641, 5740>>, <<1, -53, 2047, 16338, 3458, 14455>>,
        <<1, -53, 2047, 16377, 697, 13177>>, <<1, -53, 2047, 16383, 273, 377>>,
        <<1, -53, 2047, 16383, 14255, 12592>>, <<1, -53, 2047, 16383, 16120, 2206>>,
        <<1, -53, 2047, 16383, 16353, 2956>>, <<1, -53, 2047, 16383, 16380, 9790>>,
        <<1, -53, 2047, 16383, 16383, 10550>>, <<1, -53, 2047, 16383, 16383, 15804>>,
        <<1, -53, 2047, 16383, 16383, 16329>>, <<1, -53, 2047, 16383, 16383, 16379>>,
        <<1, -52, 1024, 0, 0, 0>> >>) @@
    (3 :> <<
        <<1, -57, 1631, 6924, 13114, 12463>>, <<1, -55, 1631, 6924, 13114, 12463>>,
        <<1, -54, 1733, 6333, 9838, 7098>>, <<1, -53, 1325, 8698, 6559, 12174>>,
        <<1, -53, 1669, 10799, 1646, 2259>>, <<1, -53, 1876, 2229, 1974, 12694>>,
        <<1, -53, 1979, 6136, 2139, 1527>>, <<1, -53, 2023, 10151, 2209, 8444>>,
        <<1, -53, 2040, 3464, 12475, 15134>>, <<1, -53, 2045, 12158, 10436, 11903>>,
        <<1, -53, 2047, 6574, 13101, 12572>>, <<1, -53, 2047, 13988, 10849, 11265>>,
        <<1, -53, 2047, 15842, 2094, 10938>>, <<1, -53, 2047, 16269, 13937, 10863>>,
        <<1, -53, 2047, 16361, 8283, 7336>>, <<1, -53, 2047, 16379, 13706, 3354>>,
        <<1, -53, 2047, 16383, 4482, 15919>>, <<1, -53, 2047, 16383, 14420, 8499>>,
        <<1, -53, 2047, 16383, 16076, 12723>>, <<1, -53, 2047, 16383, 16338, 4767>>,
        <<1, -53, 2047, 16383, 16377, 8489>>, <<1, -53, 2047, 16383, 16383, 1999>>,
        <<1, -53, 2047, 16383, 16383, 14519>>, <<1, -53, 2047, 16383, 16383, 16152>>,
        <<1, -53, 2047, 16383, 16383, 16356>>, <<1, -53, 2047, 16383, 16383, 16381>>,
        <<1, -52, 1024, 0, 0, 0>> >>) @@
    (4 :> <<
        <<1, -58, 1200, 5467, 8324, 15604>>, <<1, -56, 1500, 6834, 6310, 3122>>,
        <<1, -55, 1950, 8884, 11480, 781>>, <<1, -54, 1775, 8087, 5828, 10794>>,
        <<1, -53, 1287, 14058, 2958, 10598>>, <<1, -53, 1607, 15516, 2994, 1652>>,
        <<1, -53, 1821, 5565, 8479, 1150>>, <<1, -53, 1943, 4560, 9272, 12565>>,
        <<1, -53, 2004, 4058, 1477, 10081>>, <<1, -53, 2031, 5655, 3474, 7157>>,
        <<1, -53, 2042, 3017, 4273, 2710>>, <<1, -53, 2046, 2058, 95, 4072>>,
        <<1, -53, 2047, 7199, 9625, 4526>>, <<1, -53, 2047, 13822, 13817, 14748>>,
        <<1, -53, 2047, 15715, 3312, 15328>>, <<1, -53, 2047, 16219, 13618, 13298>>,
        <<1, -53, 2047, 16345, 16195, 4599>>, <<1, -53, 2047, 16375, 11018, 15081>>,
        <<1, -53, 2047, 16382, 4407, 4667>>, <<1, -53, 2047, 16383, 10776, 3337>>,
        <<1, -53, 2047, 16383, 15326, 12901>>, <<1, -53, 2047, 16383, 16193, 9262>>,
        <<1, -53, 2047, 16383, 16351, 2642>>, <<1, -53, 2047, 16383, 16378, 9327>>,
        <<1, -53, 2047, 16383, 16383, 2249>>, <<1, -53, 2047, 16383, 16383, 14224>>,
        <<1, -53, 2047, 16383, 16383, 16066>>, <<1, -53, 2047, 16383, 16383, 16339>>,
        <<1, -53, 2047, 16383, 16383, 16378>>, <<1, -53, 2047, 16383, 16383, 16383>>,
        <<1, -52, 1024, 0, 0, 0>> >>) @@
    (6 :> <<
        <<1, -61, 1299, 9503, 1103, 5334>>, <<1, -58, 1137, 2171, 3013, 6715>>,
        <<1, -57, 2030, 9728, 8891, 15502>>, <<1, -55, 1238, 10849, 10011, 9948>>,
        <<1, -54, 1167, 9689, 14943, 4408>>, <<1, -54, 1825, 8254, 7207, 7006>>,
        <<1, -53, 1241, 11601, 7927, 12994>>, <<1, -53, 1523, 10986, 4612, 7086>>,
        <<1, -53, 1735, 2332, 14413, 14942>>, <<1, -53, 1876, 2025, 4564, 3796>>,
        <<1, -53, 1960, 11671, 1931, 3662>>, <<1, -53, 2006, 13953, 9431, 12526>>,
        <<1, -53, 2029, 15094, 13182, 573>>, <<1, -53, 2040, 9319, 16173, 3879>>,
        <<1, -53, 2045, 2163, 15114, 9977>>, <<1, -53, 2046, 15685, 8137, 9139>>,
        <<1, -53, 2047, 10516, 1425, 2681>>, <<1, -53, 2047, 14474, 2911, 2329>>,
        <<1, -53, 2047, 15793, 8867, 13135>>, <<1, -53, 2047, 16210, 2988, 163>>,
        <<1, -53, 2047, 16335, 2862, 7740>>, <<1, -53, 2047, 16370, 14529, 7565>>,
        <<1, -53, 2047, 16380, 10264, 1559>>, <<1, -53, 2047, 16383, 2740, 4266>>,
        <<1, -53, 2047, 16383, 13147, 4943>>, <<1, -53, 2047, 16383, 15644, 16247>>,
        <<1, -53, 2047, 16383, 16221, 6252>>, <<1, -53, 2047, 16383, 16349, 7672>>,
        <<1, -53, 2047, 16383, 16376, 14998>>, <<1, -53, 2047, 16383, 16382, 9734>>,
        <<1, -53, 2047, 16383, 16383, 11958>>, <<1, -53, 2047, 16383, 16383, 15560>>,
        <<1, -53, 2047, 16383, 16383, 16235>>, <<1, -53, 2047, 16383, 16383, 16358>>,
        <<1, -53, 2047, 16383, 16383, 16380>>, <<1, -53, 2047, 16383, 16383, 16383>>,
        <<1, -52, 1024, 0, 0, 0>> >>) @@
    (10 :> <<
        <<1, -67, 1523, 6043, 5521, 15515>>, <<1, -63, 1047, 5178, 13012, 5546>>,
        <<1, -61, 1451, 15744, 911, 1731>>, <<1, -59, 1354, 12563, 13294, 13008>>,
        <<1, -58, 1917, 1706, 10693, 2767>>, <<1, -56, 1099, 2235, 600, 2919>>,
        <<1, -55, 1066, 1941, 13591, 2633>>, <<1, -55, 1804, 778, 13853, 13672>>,
        <<1, -54, 1363, 3758, 9139, 1447>>, <<1, -54, 1875, 11142, 15237, 15485>>,
        <<1, -53, 1194, 1071, 10668, 6569>>, <<1, -53, 1426, 16343, 13440, 9971>>,
        <<1, -53, 1621, 1763, 15750, 12806>>, <<1, -53, 1770, 6932, 11226, 4904>>,
        <<1, -53, 1877, 1262, 5653, 15644>>, <<1, -53, 1948, 2943, 7400, 6420>>,
        <<1, -53, 1992, 10138, 2347, 14991>>, <<1, -53, 2018, 12442, 12868, 9431>>,
        <<1, -53, 2033, 4620, 15072, 8163>>, <<1, -53, 2040, 15163, 8471, 10082>>,
        <<1, -53, 2044, 12242, 13363, 2850>>, <<1, -53, 2046, 9291, 10231, 2527>>,
        <<1, -53, 2047, 6460, 11786, 6848>>, <<1, -53, 2047, 12353, 6051, 8015>>,
        <<1, -53, 2047, 14808, 10488, 9866>>, <<1, -53, 2047, 15790, 12263, 7330>>,
        <<1, -53, 2047, 16168, 7904, 13916>>, <<1, -53, 2047, 16308, 6290, 9074>>,
        <<1, -53, 2047, 16358, 5714, 323>>, <<1, -53, 2047, 16375, 9469, 15949>>,
        <<1, -53, 2047, 16381, 5260, 10235>>, <<1, -53, 2047, 16383, 2845, 12091>>,
        <<1, -53, 2047, 16383, 12331, 1407>>, <<1, -53, 2047, 16383, 15205, 7107>>,
        <<1, -53, 2047, 16383, 16050, 13602>>, <<1, -53, 2047, 16383, 16292, 6095>>,
        <<1, -53, 2047, 16383, 16359, 7651>>, <<1, -53, 2047, 16383, 16377, 9843>>,
        <<1, -53, 2047, 16383, 16382, 6108>>, <<1, -53, 2047, 16383, 16383, 9771>>,
        <<1, -53, 2047, 16383, 16383, 14783>>, <<1, -53, 2047, 16383, 16383, 16006>>,
        <<1, -53, 2047, 16383, 16383, 16297>>, <<1, -53, 2047, 16383, 16383, 16364>>,
        <<1, -53, 2047, 16383, 16383, 16380>>, <<1, -53, 2047, 16383, 16383, 16383>>,
        <<1, -52, 1024, 0, 0, 0>> >>) @@
    (15 :> <<
        <<1, -74, 1313, 13770, 2207, 11320>>, <<1, -70, 1313, 13770, 2207, 11320>>,
        <<1, -67, 1318, 15935, 15144, 5156>>, <<1, -65, 1773, 2808, 4963, 8526>>,
        <<1, -63, 1796, 8303, 14376, 11988>>, <<1, -61, 1464, 609, 5254, 1173>>,
        <<1, -60, 2000, 10759, 5725, 14691>>, <<1, -58, 1179, 12971, 11576, 2451>>,
        <<1, -57, 1227, 765, 1730, 11601>>, <<1, -56, 1144, 7903, 4310, 14446>>,
        <<1, -56, 1940, 15088, 5383, 2839>>, <<1, -55, 1513, 7974, 11614, 11379>>,
        <<1, -54, 1096, 2208, 7288, 4746>>, <<1, -54, 1487, 12128, 12777, 16261>>,
        <<1, -54, 1907, 5203, 6956, 15725>>, <<1, -53, 1163, 7331, 567, 15786>>,
        <<1, -53, 1360, 2036, 12687, 5807>>, <<1, -53, 1533, 10858, 1214, 5676>>,
        <<1, -53, 1678, 4555, 13498, 13758>>, <<1, -53, 1792, 7341, 3363, 14103>>,
        <<1, -53, 1878, 1238, 3954, 10266>>, <<1, -53, 1939, 3900, 11398, 5184>>,
        <<1, -53, 1980, 15397, 7536, 13635>>, <<1, -53, 2008, 2237, 4306, 2050>>,
        <<1, -53, 2025, 2204, 2286, 15289>>, <<1, -53, 2035, 5461, 1075, 6849>>,
        <<1, -53, 2041, 3559, 2266, 15213>>, <<1, -53, 2044, 7963, 13851, 8937>>,
        <<1, -53, 2046, 3886, 15376, 7330>>, <<1, -53, 2047, 2343, 2606, 284>>,
        <<1, -53, 2047, 9763, 4412, 13145>>, <<1, -53, 2047, 13353, 10572, 3513>>,
        <<1, -53, 2047, 15036, 10387, 7190>>, <<1, -53, 2047, 15801, 10303, 7372>>,
        <<1, -53, 2047, 16139, 2074, 6488>>, <<1, -53, 2047, 16283, 12591, 1428>>,
        <<1, -53, 2047, 16344, 589, 685>>, <<1, -53, 2047, 16368, 7679, 3927>>,
        <<1, -53, 2047, 16378, 1854, 13829>>, <<1, -53, 2047, 16381, 13478, 1254>>,
        <<1, -53, 2047, 16383, 3500, 12922>>, <<1, -53, 2047, 16383, 11838, 13994>>,
        <<1, -53, 2047, 16383, 14816, 12037>>, <<1, -53, 2047, 16383, 15855, 8687>>,
        <<1, -53, 2047, 16383, 16209, 10896>>, <<1, -53, 2047, 16383, 16327, 11632>>,
        <<1, -53, 2047, 16383, 16366, 3324>>, <<1, -53, 2047, 16383, 16378, 7993>>,
        <<1, -53, 2047, 16383, 16382, 5356>>, <<1, -53, 2047, 16383, 16383, 8227>>,
        <<1, -53, 2047, 16383, 16383, 14003>>, <<1, -53, 2047, 16383, 16383, 15702>>,
        <<1, -53, 2047, 16383, 16383, 16192>>, <<1, -53, 2047, 16383, 16383, 16331>>,
        <<1, -53, 2047, 16383, 16383, 16370>>, <<1, -53, 2047, 16383, 16383, 16380>>,
        <<1, -53, 2047, 16383, 16383, 16383>>, <<1, -52, 1024, 0, 0, 0>> >>) @@
    (23 :> <<
        <<1, -86, 1805, 4734, 4303, 15025>>, <<1, -81, 1353, 15838, 11419, 15365>>,
        <<1, -78, 2034, 7799, 4786, 5125>>, <<1, -75, 2041, 13463, 14569, 2602>>,
        <<1, -72, 1540, 35, 7190, 11591>>, <<1, -70, 1862, 8046, 16062, 4487>>,
        <<1, -68, 1881, 9032, 4544, 7764>>, <<1, -66, 1633, 7732, 5959, 2424>>,
        <<1, -64, 1244, 5483, 12124, 5561>>, <<1, -63, 1690, 5685, 15099, 10705>>,
        <<1, -61, 1036, 12944, 11633, 14196>>, <<1, -60, 1160, 8465, 9006, 3316>>,
        <<1, -59, 1195, 10238, 15068, 13393>>, <<1, -58, 1142, 2870, 12154, 13927>>,
        <<1, -58, 2036, 7953, 9213, 60>>, <<1, -57, 1703, 14427, 3443, 5782>>,
        <<1, -56, 1344, 12164, 13941, 10866>>, <<1, -56, 2011, 7780, 4934, 13463>>,
        <<1, -55, 1431, 11556, 7635, 11576>>, <<1, -55, 1947, 5746, 3544, 4506>>,
        <<1, -54, 1270, 2809, 238, 12524>>, <<1, -54, 1594, 14831, 12602, 12850>>,
        <<1, -54, 1934, 6548, 10634, 4255>>, <<1, -53, 1136, 15516, 12524, 14214>>,
        <<1, -53, 1299, 10182, 7144, 4634>>, <<1, -53, 1449, 4619, 8092, 6306>>,
        <<1, -53, 1581, 11041, 3259, 11566>>, <<1, -53, 1694, 7409, 5211, 2090>>,
        <<1, -53, 1787, 1500, 4473, 8350>>, <<1, -53, 1860, 9243, 498, 11619>>,
        <<1, -53, 1916, 14633, 182, 473>>, <<1, -53, 1958, 11232, 13159, 15986>>,
        <<1, -53, 1988, 11860, 14807, 14336>>, <<1, -53, 2009, 10809, 3544, 4746>>,
        <<1, -53, 2023, 13470, 15681, 16088>>, <<1, -53, 2033, 2112, 14764, 136>>,
        <<1, -53, 2039, 1227, 15087, 12245>>, <<1, -53, 2042, 12633, 11303, 11358>>,
        <<1, -53, 2045, 135, 1252, 8235>>, <<1, -53, 2046, 5367, 2886, 11854>>,
        <<1, -53, 2047, 1412, 7103, 3286>>, <<1, -53, 2047, 8384, 15462, 11266>>,
        <<1, -53, 2047, 12203, 3656, 8225>>, <<1, -53, 2047, 14245, 9153, 4693>>,
        <<1, -53, 2047, 15313, 2345, 2474>>, <<1, -53, 2047, 15858, 13064, 14812>>,
        <<1, -53, 2047, 16131, 10232, 12788>>, <<1, -53, 2047, 16265, 2223, 8661>>,
        <<1, -53, 2047, 16329, 1799, 1563>>, <<1, -53, 2047, 16359, 2268, 9934>>,
        <<1, -53, 2047, 16372, 15591, 12802>>, <<1, -53, 2047, 16379, 2967, 7992>>,
        <<1, -53, 2047, 16381, 15343, 823>>, <<1, -53, 2047, 16383, 2165, 10695>>,
        <<1, -53, 2047, 16383, 10509, 13080>>, <<1, -53, 2047, 16383, 13999, 2757>>,
        <<1, -53, 2047, 16383, 15432, 4954>>, <<1, -53, 2047, 16383, 16010, 9577>>,
        <<1, -53, 2047, 16383, 16239, 14800>>, <<1, -53, 2047, 16383, 16329, 4895>>,
        <<1, -53, 2047, 16383, 16363, 9291>>, <<1, -53, 2047, 16383, 16376, 7993>>,
        <<1, -53, 2047, 16383, 16381, 4605>>, <<1, -53, 2047, 16383, 16383, 508>>,
        <<1, -53, 2047, 16383, 16383, 10811>>, <<1, -53, 2047, 16383, 16383, 14457>>,
        <<1, -53, 2047, 16383, 16383, 15727>>, <<1, -53, 2047, 16383, 16383, 16163>>,
        <<1, -53, 2047, 16383, 16383, 16311>>, <<1, -53, 2047, 16383, 16383, 16360>>,
        <<1, -53, 2047, 16383, 16383, 16376>>, <<1, -53, 2047, 16383, 16383, 16382>>,
        <<1, -53, 2047, 16383, 16383, 16383>>, <<1, -52, 1024, 0, 0, 0>> >>) @@
    (40 :> <<
        <<1, -110, 1253, 14628, 9836, 6692>>, <<1, -105, 1606, 9014, 14650, 14718>>,
        <<1, -100, 1029, 13246, 5070, 8760>>, <<1, -97, 1761, 6538, 1836, 5030>>,
        <<1, -93, 1130, 8324, 1378, 5334>>, <<1, -90, 1161, 12027, 15771, 13878>>,
        <<1, -88, 1991, 2204, 12192, 14566>>, <<1, -85, 1463, 11112, 13853, 7991>>,
        <<1, -83, 1884, 6596, 12731, 1519>>, <<1, -80, 1079, 2490, 14932, 1972>>,
        <<1, -78, 1113, 6385, 689, 12515>>, <<1, -76, 1045, 4228, 2991, 4749>>,
        <<1, -75, 1800, 13327, 4828, 6440>>, <<1, -73, 1433, 6916, 2195, 5997>>,
        <<1, -71, 1060, 10725, 13542, 12240>>, <<1, -70, 1466, 11897, 4981, 14980>>,
        <<1, -69, 1903, 14116, 10494, 2181>>, <<1, -67, 1164, 8092, 15041, 6578>>,
        <<1, -66, 1347, 4566, 3113, 14543>>, <<1, -65, 1478, 15333, 12439, 14375>>,
        <<1, -64, 1544, 12525, 8910, 14291>>, <<1, -63, 1539, 5428, 12089, 7669>>,
        <<1, -62, 1466, 14616, 8516, 6545>>, <<1, -61, 1339, 11959, 2845, 12040>>,
        <<1, -60, 1175, 1663, 5707, 2404>>, <<1, -60, 1983, 7864, 9285, 3172>>,
        <<1, -59, 1613, 9332, 9915, 9109>>, <<1, -58, 1267, 6542, 11290, 15284>>,
        <<1, -58, 1925, 6882, 10976, 186>>, <<1, -57, 1416, 8478, 186, 2109>>,
        <<1, -57, 2021, 9732, 4039, 10259>>, <<1, -56, 1401, 2768, 7677, 610>>,
        <<1, -56, 1889, 2194, 6556, 9296>>, <<1, -55, 1240, 4969, 6571, 1472>>,
        <<1, -55, 1588, 3742, 5626, 2555>>, <<1, -55, 1985, 14042, 13908, 8474>>,
        <<1, -54, 1213, 13654, 2453, 5704>>, <<1, -54, 1452, 10640, 244, 5963>>,
        <<1, -54, 1704, 568, 11716, 2785>>, <<1, -54, 1961, 14185, 376, 7928>>,
        <<1, -53, 1109, 13900, 10902, 6536>>, <<1, -53, 1235, 10152, 14961, 7846>>,
        <<1, -53, 1355, 6583, 10245, 2852>>, <<1, -53, 1466, 13550, 16145, 8875>>,
        <<1, -53, 1568, 2011, 8104, 6903>>, <<1, -53, 1658, 2676, 13699, 14253>>,
        <<1, -53, 1736, 7529, 7880, 4260>>, <<1, -53, 1803, 1550, 1881, 10047>>,
        <<1, -53, 1858, 10220, 10536, 1217>>, <<1, -53, 1903, 15626, 12919, 13068>>,
        <<1, -53, 1940, 3567, 11549, 15995>>, <<1, -53, 1968, 10814, 14009, 6725>>,
        <<1, -53, 1990, 8827, 12120, 5896>>, <<1, -53, 2007, 836, 4202, 14544>>,
        <<1, -53, 2019, 4625, 11081, 3353>>, <<1, -53, 2028, 2913, 4167, 16066>>,
        <<1, -53, 2034, 8711, 13273, 6422>>, <<1, -53, 2038, 16230, 3854, 517>>,
        <<1, -53, 2042, 1076, 9787, 2659>>, <<1, -53, 2044, 2466, 2146, 7166>>,
        <<1, -53, 2045, 8853, 13436, 10171>>, <<1, -53, 2046, 7402, 1232, 15364>>,
        <<1, -53, 2047, 651, 12914, 11315>>, <<1, -53, 2047, 6768, 7068, 7184>>,
        <<1, -53, 2047, 10591, 5462, 8698>>, <<1, -53, 2047, 12943, 14556, 12151>>,
        <<1, -53, 2047, 14369, 11131, 10768>>, <<1, -53, 2047, 15220, 14711, 3095>>,
        <<1, -53, 2047, 15721, 10070, 7256>>, <<1, -53, 2047, 16011, 14503, 10380>>,
        <<1, -53, 2047, 16177, 12355, 12165>>, <<1, -53, 2047, 16271, 3299, 13171>>,
        <<1, -53, 2047, 16323, 1909, 10089>>, <<1, -53, 2047, 16351, 9227, 10644>>,
        <<1, -53, 2047, 16366, 15397, 6516>>, <<1, -53, 2047, 16375, 2303, 15238>>,
        <<1, -53, 2047, 16379, 7485, 857>>, <<1, -53, 2047, 16381, 11453, 3600>>,
        <<1, -53, 2047, 16382, 13908, 4586>>, <<1, -53, 2047, 16383, 7063, 730>>,
        <<1, -53, 2047, 16383, 11832, 6994>>, <<1, -53, 2047, 16383, 14187, 11099>>,
        <<1, -53, 2047, 16383, 15336, 9505>>, <<1, -53, 2047, 16383, 15890, 4394>>,
        <<1, -53, 2047, 16383, 16153, 15223>>, <<1, -53, 2047, 16383, 16278, 81>>,
        <<1, -53, 2047, 16383, 16335, 11708>>, <<1, -53, 2047, 16383, 16362, 4059>>,
        <<1, -53, 2047, 16383, 16374, 5051>>, <<1, -53, 2047, 16383, 16379, 11940>>,
        <<1, -53, 2047, 16383, 16382, 2258>>, <<1, -53, 2047, 16383, 16383, 3224>>,
        <<1, -53, 2047, 16383, 16383, 10767>>, <<1, -53, 2047, 16383, 16383, 14012>>,
        <<1, -53, 2047, 16383, 16383, 15392>>, <<1, -53, 2047, 16383, 16383, 15974>>,
        <<1, -53, 2047, 16383, 16383, 16216>>, <<1, -53, 2047, 16383, 16383, 16316>>,
        <<1, -53, 2047, 16383, 16383, 16357>>, <<1, -53, 2047, 16383, 16383, 16373>>,
        <<1, -53, 2047, 16383, 16383, 16380>>, <<1, -53, 2047, 16383, 16383, 16382>>,
        <<1, -53, 2047, 16383, 16383, 16383>>, <<1, -52, 1024, 0, 0, 0>> >>) @@
    (61 :> <<
        <<1, -141, 2041, 12566, 1547, 10700>>, <<1, -135, 1977, 15757, 6619, 4734>>,
        <<1, -130, 1916, 10632, 868, 13337>>, <<1, -125, 1238, 8028, 7823, 12642>>,
        <<1, -121, 1200, 12349, 4016, 2299>>, <<1, -118, 1863, 3278, 3935, 5378>>,
        <<1, -114, 1204, 16155, 1211, 8862>>, <<1, -111, 1336, 5734, 4311, 13265>>,
        <<1, -108, 1297, 3105, 8632, 5342>>, <<1, -105, 1119, 10376, 7082, 9392>>,
        <<1, -103, 1740, 1186, 2887, 10328>>, <<1, -100, 1229, 10948, 5231, 3751>>,
        <<1, -98, 1593, 11512, 13214, 7349>>, <<1, -96, 1907, 5532, 3092, 9122>>,
        <<1, -93, 1060, 3855, 14022, 7814>>, <<1, -91, 1100, 9403, 7128, 12971>>,
        <<1, -89, 1071, 8090, 11955, 8752>>, <<1, -88, 1964, 8078, 14712, 12332>>,
        <<1, -86, 1701, 9646, 13126, 10848>>, <<1, -84, 1396, 15647, 8817, 5064>>,
        <<1, -82, 1090, 845, 13286, 909>>, <<1, -81, 1620, 15864, 10742, 8030>>,
        <<1, -79, 1151, 1078, 13626, 3349>>, <<1, -78, 1564, 9176, 10636, 782>>,
        <<1, -77, 2039, 2764, 13248, 5743>>, <<1, -75, 1276, 8098, 8804, 15513>>,
        <<1, -74, 1537, 10611, 14311, 14189>>, <<1, -73, 1784, 13326, 1055, 10719>>,
        <<1, -72, 1999, 1794, 10998, 5066>>, <<1, -70, 1081, 12295, 3312, 2595>>,
        <<1, -69, 1132, 8975, 9464, 4969>>, <<1, -68, 1148, 6609, 8318, 7154>>,
        <<1, -67, 1129, 719, 281, 6492>>, <<1, -66, 1077, 5416, 15298, 15621>>,
        <<1, -66, 1997, 6057, 9967, 9634>>, <<1, -65, 1800, 7097, 15785, 10834>>,
        <<1, -64, 1579, 7792, 14882, 10401>>, <<1, -63, 1349, 10937, 5121, 14512>>,
        <<1, -62, 1124, 4113, 9106, 14299>>, <<1, -62, 1827, 3044, 4851, 13761>>,
        <<1, -61, 1449, 9513, 3891, 14048>>, <<1, -60, 1123, 8403, 7432, 2466>>,
        <<1, -60, 1702, 9994, 2332, 722>>, <<1, -59, 1262, 981, 8788, 11317>>,
        <<1, -59, 1831, 8447, 4461, 15334>>, <<1, -58, 1301, 11832, 6034, 560>>,
        <<1, -58, 1813, 8921, 14104, 11615>>, <<1, -57, 1238, 14947, 5666, 6358>>,
        <<1, -57, 1661, 113, 13633, 914>>, <<1, -56, 1093, 3864, 2245, 14790>>,
        <<1, -56, 1413, 12604, 15511, 5570>>, <<1, -56, 1797, 2499, 5356, 3216>>,
        <<1, -55, 1123, 7295, 4126, 385>>, <<1, -55, 1382, 4206, 9656, 10724>>,
        <<1, -55, 1674, 10123, 2857, 11481>>, <<1, -55, 1998, 14302, 1274, 14108>>,
        <<1, -54, 1176, 649, 14842, 12727>>, <<1, -54, 1365, 591, 1301, 2126>>,
        <<1, -54, 1563, 13240, 15307, 5384>>, <<1, -54, 1769, 5214, 12848, 15140>>,
        <<1, -54, 1978, 4154, 9803, 6762>>, <<1, -53, 1093, 9739, 3378, 15576>>,
        <<1, -53, 1196, 6178, 11394, 753>>, <<1, -53, 1295, 14694, 2250, 9285>>,
        <<1, -53, 1390, 12314, 6847, 11274>>, <<1, -53, 1479, 12601, 12422, 3562>>,
        <<1, -53, 1562, 703, 7396, 8101>>, <<1, -53, 1636, 15547, 1353, 10033>>,
        <<1, -53, 1704, 2359, 2679, 2370>>, <<1, -53, 1763, 8983, 14298, 12454>>,
        <<1, -53, 1815, 5160, 8040, 6964>>, <<1, -53, 1859, 12952, 1971, 4324>>,
        <<1, -53, 1897, 7720, 7752, 39>>, <<1, -53, 1928, 15692, 15275, 12170>>,
        <<1, -53, 1954, 14958, 7307, 13091>>, <<1, -53, 1976, 380, 827, 3355>>,
        <<1, -53, 1992, 15841, 15027, 12787>>, <<1, -53, 2006, 6387, 7340, 3875>>,
        <<1, -53, 2016, 14537, 5949, 5097>>, <<1, -53, 2024, 16267, 11511, 14130>>,
        <<1, -53, 2031, 2841, 7970, 14873>>, <<1, -53, 2035, 13564, 5911, 1273>>,
        <<1, -53, 2039, 4757, 8574, 10937>>, <<1, -53, 2041, 13682, 662, 5998>>,
        <<1, -53, 2043, 11190, 12275, 12554>>, <<1, -53, 2045, 150, 12128, 15717>>,
        <<1, -53, 2045, 15562, 7452, 9007>>, <<1, -53, 2046, 9984, 6056, 14847>>,
        <<1, -53, 2047, 1090, 13653, 13683>>, <<1, -53, 2047, 6224, 12233, 7915>>,
        <<1, -53, 2047, 9704, 6537, 10559>>, <<1, -53, 2047, 12036, 14962, 8910>>,
        <<1, -53, 2047, 13583, 7726, 5858>>, <<1, -53, 2047, 14597, 14431, 3680>>,
        <<1, -53, 2047, 15256, 2746, 13944>>, <<1, -53, 2047, 15678, 14042, 12085>>,
        <<1, -53, 2047, 15947, 7225, 10903>>, <<1, -53, 2047, 16116, 5641, 2559>>,
        <<1, -53, 2047, 16221, 7831, 6059>>, <<1, -53, 2047, 16286, 4216, 768>>,
        <<1, -53, 2047, 16325, 12660, 4913>>, <<1, -53, 2047, 16349, 10460, 8066>>,
        <<1, -53, 2047, 16363, 14927, 8345>>, <<1, -53, 2047, 16372, 5961, 1034>>,
        <<1, -53, 2047, 16377, 5270, 8404>>, <<1, -53, 2047, 16380, 3308, 15650>>,
        <<1, -53, 2047, 16381, 14081, 11783>>, <<1, -53, 2047, 16382, 13179, 10037>>,
        <<1, -53, 2047, 16383, 5540, 252>>, <<1, -53, 2047, 16383, 10433, 11010>>,
        <<1, -53, 2047, 16383, 13147, 6997>>, <<1, -53, 2047, 16383, 14638, 12614>>,
        <<1, -53, 2047, 16383, 15451, 313>>, <<1, -53, 2047, 16383, 15889, 8027>>,
        <<1, -53, 2047, 16383, 16124, 1807>>, <<1, -53, 2047, 16383, 16248, 9193>>,
        <<1, -53, 2047, 16383, 16314, 83>>, <<1, -53, 2047, 16383, 16348, 2055>>,
        <<1, -53, 2047, 16383, 16365, 12516>>, <<1, -53, 2047, 16383, 16374, 13197>>,
        <<1, -53, 2047, 16383, 16379, 6580>>, <<1, -53, 2047, 16383, 16381, 11775>>,
        <<1, -53, 2047, 16383, 16382, 14372>>, <<1, -53, 2047, 16383, 16383, 7401>>,
        <<1, -53, 2047, 16383, 16383, 12032>>, <<1, -53, 2047, 16383, 16383, 14292>>,
        <<1, -53, 2047, 16383, 16383, 15386>>, <<1, -53, 2047, 16383, 16383, 15912>>,
        <<1, -53, 2047, 16383, 16383, 16162>>, <<1, -53, 2047, 16383, 16383, 16281>>,
        <<1, -53, 2047, 16383, 16383, 16336>>, <<1, -53, 2047, 16383, 16383, 16362>>,
        <<1, -53, 2047, 16383, 16383, 16374>>, <<1, -53, 2047, 16383, 16383, 16379>>,
        <<1, -53, 2047, 16383, 16383, 16382>>, <<1, -53, 2047, 16383, 16383, 16383>>,
        <<1, -52, 1024, 0, 0, 0>> >>) @@
    (64 :> <<
        <<1, -145, 1626, 7495, 3207, 9420>>, <<1, -139, 1651, 14268, 5049, 11359>>,
        <<1, -134, 1678, 1285, 1317, 6191>>, <<1, -129, 1136, 12204, 15662, 3572>>,
        <<1, -125, 1155, 5759, 9943, 15378>>, <<1, -122, 1879, 5028, 6985, 7737>>,
        <<1, -118, 1274, 797, 4264, 14942>>, <<1, -115, 1481, 1236, 12807, 12540>>,
        <<1, -112, 1506, 15627, 11827, 10192>>, <<1, -109, 1363, 5239, 13071, 15084>>,
        <<1, -106, 1110, 6151, 3945, 9247>>, <<1, -104, 1644, 13256, 252, 11158>>,
        <<1, -101, 1117, 1277, 2273, 1831>>, <<1, -99, 1401, 1427, 2381, 13912>>,
        <<1, -97, 1632, 5718, 14956, 1886>>, <<1, -95, 1775, 10426, 2126, 15157>>,
        <<1, -93, 1811, 7506, 15303, 10283>>, <<1, -91, 1739, 15885, 9536, 14224>>,
        <<1, -89, 1579, 1405, 633, 15735>>, <<1, -87, 1358, 3579, 9679, 1901>>,
        <<1, -85, 1110, 5115, 15770, 11138>>, <<1, -84, 1729, 10550, 7554, 8553>>,
        <<1, -82, 1286, 9567, 6861, 2074>>, <<1, -81, 1831, 11575, 12842, 592>>,
        <<1, -79, 1250, 3325, 16311, 8043>>, <<1, -78, 1639, 3526, 12145, 7901>>,
        <<1, -76, 1033, 14316, 9902, 10980>>, <<1, -75, 1256, 9427, 13695, 16161>>,
        <<1, -74, 1473, 9648, 3968, 12085>>, <<1, -73, 1669, 8856, 7846, 11591>>,
        <<1, -72, 1829, 11460, 1438, 6252>>, <<1, -71, 1941, 14310, 268, 2012>>,
        <<1, -70, 1997, 15734, 16066, 16276>>, <<1, -69, 1994, 14449, 12560, 15498>>,
        <<1, -68, 1934, 12456, 3313, 6002>>, <<1, -67, 1824, 5861, 12519, 3511>>,
        <<1, -66, 1673, 15348, 5902, 12221>>, <<1, -65, 1495, 12878, 7956, 7634>>,
        <<1, -64, 1302, 11252, 15953, 14585>>, <<1, -63, 1106, 9156, 1839, 3735>>,
        <<1, -63, 1834, 14803, 8402, 14427>>, <<1, -62, 1485, 15006, 5927, 9964>>,
        <<1, -61, 1176, 1204, 3498, 12929>>, <<1, -61, 1820, 11642, 3532, 16375>>,
        <<1, -60, 1379, 2986, 3280, 13672>>, <<1, -60, 2045, 15702, 6890, 14919>>,
        <<1, -59, 1486, 13491, 11655, 9752>>, <<1, -58, 1059, 3614, 4620, 1033>>,
        <<1, -58, 1480, 4900, 3009, 12294>>, <<1, -58, 2030, 4573, 8596, 15298>>,
        <<1, -57, 1367, 2077, 11478, 12194>>, <<1, -57, 1808, 13701, 12779, 2798>>,
        <<1, -56, 1176, 3921, 11600, 15151>>, <<1, -56, 1504, 7803, 12329, 7955>>,
        <<1, -56, 1893, 8156, 16227, 640>>, <<1, -55, 1173, 1454, 848, 11107>>,
        <<1, -55, 1431, 12498, 1908, 4711>>, <<1, -55, 1722, 3340, 9421, 11039>>,
        <<1, -55, 2042, 11314, 9802, 12937>>, <<1, -54, 1195, 2762, 2053, 7498>>,
        <<1, -54, 1380, 9504, 5569, 4226>>, <<1, -54, 1575, 1805, 11138, 1600>>,
        <<1, -54, 1775, 14999, 5259, 3646>>, <<1, -54, 1979, 14879, 1367, 8845>>,
        <<1, -53, 1091, 15571, 6929, 15214>>, <<1, -53, 1192, 6185, 15600, 9959>>,
        <<1, -53, 1289, 12475, 15071, 13304>>, <<1, -53, 1382, 12859, 14566, 11364>>,
        <<1, -53, 1470, 5511, 2526, 1828>>, <<1, -53, 1551, 8905, 4180, 4856>>,
        <<1, -53, 1625, 12944, 10841, 15582>>, <<1, -53, 1692, 11739, 13846, 15327>>,
        <<1, -53, 1752, 3387, 1954, 7820>>, <<1, -53, 1804, 5939, 7687, 12684>>,
        <<1, -53, 1849, 7704, 1576, 507>>, <<1, -53, 1887, 15763, 8375, 9995>>,
        <<1, -53, 1920, 6166, 6340, 11948>>, <<1, -53, 1947, 5211, 4436, 10168>>,
        <<1, -53, 1969, 6948, 3294, 6186>>, <<1, -53, 1987, 5451, 13775, 9805>>,
        <<1, -53, 2001, 10808, 5776, 9423>>, <<1, -53, 2012, 16052, 265, 7300>>,
        <<1, -53, 2021, 13351, 4355, 14435>>, <<1, -53, 2028, 10281, 12642, 4737>>,
        <<1, -53, 2033, 13404, 7252, 14512>>, <<1, -53, 2037, 11900, 9363, 1248>>,
        <<1, -53, 2040, 10400, 6361, 2808>>, <<1, -53, 2042, 12686, 9802, 8663>>,
        <<1, -53, 2044, 5412, 9326, 6963>>, <<1, -53, 2045, 7361, 5118, 2796>>,
        <<1, -53, 2046, 4013, 15232, 13668>>, <<1, -53, 2046, 13182, 8843, 2409>>,
        <<1, -53, 2047, 3176, 11521, 10249>>, <<1, -53, 2047, 7565, 16007, 7540>>,
        <<1, -53, 2047, 10554, 6860, 13016>>, <<1, -53, 2047, 12567, 11219, 1356>>,
        <<1, -53, 2047, 13909, 14124, 9967>>, <<1, -53, 2047, 14795, 6920, 10919>>,
        <<1, -53, 2047, 15373, 12247, 1175>>, <<1, -53, 2047, 15747, 10063, 9439>>,
        <<1, -53, 2047, 15986, 14564, 6209>>, <<1, -53, 2047, 16138, 8332, 2864>>,
        <<1, -53, 2047, 16233, 10525, 10082>>, <<1, -53, 2047, 16292, 12365, 12022>>,
        <<1, -53, 2047, 16329, 2155, 5654>>, <<1, -53, 2047, 16351, 4982, 1304>>,
        <<1, -53, 2047, 16364, 11325, 12589>>, <<1, -53, 2047, 16372, 11445, 3414>>,
        <<1, -53, 2047, 16377, 7268, 4652>>, <<1, -53, 2047, 16380, 3763, 9738>>,
        <<1, -53, 2047, 16381, 13938, 483>>, <<1, -53, 2047, 16382, 12867, 18>>,
        <<1, -53, 2047, 16383, 5233, 4434>>, <<1, -53, 2047, 16383, 10189, 2875>>,
        <<1, -53, 2047, 16383, 12971, 7174>>, <<1, -53, 2047, 16383, 14519, 13555>>,
        <<1, -53, 2047, 16383, 15374, 1822>>, <<1, -53, 2047, 16383, 15841, 6746>>,
        <<1, -53, 2047, 16383, 16094, 14138>>, <<1, -53, 2047, 16383, 16231, 2831>>,
        <<1, -53, 2047, 16383, 16303, 14277>>, <<1, -53, 2047, 16383, 16342, 5301>>,
        <<1, -53, 2047, 16383, 16362, 8113>>, <<1, -53, 2047, 16383, 16372, 16236>>,
        <<1, -53, 2047, 16383, 16378, 6687>>, <<1, -53, 2047, 16383, 16381, 2978>>,
        <<1, -53, 2047, 16383, 16382, 9676>>, <<1, -53, 2047, 16383, 16383, 4924>>,
        <<1, -53, 2047, 16383, 16383, 10739>>, <<1, -53, 2047, 16383, 16383, 13625>>,
        <<1, -53, 2047, 16383, 16383, 15045>>, <<1, -53, 2047, 16383, 16383, 15739>>,
        <<1, -53, 2047, 16383, 16383, 16076>>, <<1, -53, 2047, 16383, 16383, 16238>>,
        <<1, -53, 2047, 16383, 16383, 16315>>, <<1, -53, 2047, 16383, 16383, 16352>>,
        <<1, -53, 2047, 16383, 16383, 16369>>, <<1, -53, 2047, 16383, 16383, 16377>>,
        <<1, -53, 2047, 16383, 16383, 16381>>, <<1, -53, 2047, 16383, 16383, 16383>>,
        <<1, -53, 2047, 16383, 16383, 16383>>, <<1, -52, 1024, 0, 0, 0>> >>) @@
    (65 :> <<
        <<1, -146, 1196, 11149, 13334, 13080>>, <<1, -140, 1234, 1258, 4023, 8369>>,
        <<1, -135, 1272, 15300, 4716, 8210>>, <<1, -131, 1751, 1632, 13572, 12738>>,
        <<1, -127, 1807, 1685, 3005, 12508>>, <<1, -123, 1492, 4783, 10132, 13114>>,
        <<1, -119, 1027, 3306, 9361, 8519>>, <<1, -116, 1212, 7049, 6930, 14317>>,
        <<1, -113, 1252, 8548, 15869, 880>>, <<1, -110, 1150, 8104, 11630, 13796>>,
        <<1, -108, 1902, 12435, 13464, 7001>>, <<1, -105, 1430, 13804, 14321, 5826>>,
        <<1, -103, 1973, 3741, 10326, 11574>>, <<1, -100, 1256, 5769, 3459, 5210>>,
        <<1, -98, 1486, 976, 6709, 13351>>, <<1, -96, 1641, 2470, 841, 8539>>,
        <<1, -94, 1699, 12478, 3969, 6329>>, <<1, -92, 1657, 8614, 3260, 5532>>,
        <<1, -90, 1527, 2164, 10713, 3981>>, <<1, -88, 1333, 7826, 7371, 3433>>,
        <<1, -86, 1106, 10179, 14871, 12823>>, <<1, -85, 1750, 164, 11020, 12153>>,
        <<1, -83, 1321, 7015, 8847, 7372>>, <<1, -82, 1909, 12116, 4128, 193>>,
        <<1, -80, 1323, 2116, 6378, 7326>>, <<1, -79, 1760, 15846, 1947, 9847>>,
        <<1, -77, 1127, 6035, 16094, 14519>>, <<1, -76, 1390, 12796, 13029, 13050>>,
        <<1, -75, 1655, 6777, 6007, 11490>>, <<1, -74, 1903, 9745, 8650, 999>>,
        <<1, -72, 1058, 10999, 11023, 8943>>, <<1, -71, 1140, 5030, 4165, 2883>>,
        <<1, -70, 1190, 10998, 3402, 15572>>, <<1, -69, 1206, 7399, 5732, 8173>>,
        <<1, -68, 1187, 6238, 14911, 7107>>, <<1, -67, 1136, 1966, 7522, 13380>>,
        <<1, -66, 1057, 12344, 1773, 16130>>, <<1, -66, 1918, 420, 496, 10131>>,
        <<1, -65, 1694, 12647, 9503, 10067>>, <<1, -64, 1460, 8496, 7003, 3740>>,
        <<1, -63, 1228, 7037, 7890, 14643>>, <<1, -63, 2018, 3467, 4859, 4322>>,
        <<1, -62, 1620, 4042, 3984, 11144>>, <<1, -61, 1272, 527, 4787, 264>>,
        <<1, -61, 1954, 6512, 8170, 12903>>, <<1, -60, 1470, 297, 1978, 1926>>,
        <<1, -59, 1083, 3222, 6445, 10054>>, <<1, -59, 1564, 12005, 3011, 2407>>,
        <<1, -58, 1108, 6658, 9932, 2512>>, <<1, -58, 1540, 14884, 14924, 7758>>,
        <<1, -57, 1051, 9512, 12345, 10566>>, <<1, -57, 1409, 14400, 2506, 13948>>,
        <<1, -57, 1857, 12317, 6592, 5888>>, <<1, -56, 1203, 8436, 9201, 14695>>,
        <<1, -56, 1534, 1621, 1595, 6083>>, <<1, -56, 1924, 12929, 6010, 15269>>,
        <<1, -55, 1189, 2202, 6153, 3457>>, <<1, -55, 1447, 11426, 5574, 14503>>,
        <<1, -55, 1737, 7639, 6621, 10779>>, <<1, -54, 1028, 5760, 4165, 2228>>,
        <<1, -54, 1201, 4449, 3042, 10408>>, <<1, -54, 1385, 8692, 8829, 14290>>,
        <<1, -54, 1578, 11555, 10933, 4354>>, <<1, -54, 1778, 206, 3221, 345>>,
        <<1, -54, 1980, 7111, 6396, 4464>>, <<1, -53, 1091, 7008, 4785, 12484>>,
        <<1, -53, 1191, 1720, 1508, 9920>>, <<1, -53, 1287, 13218, 4687, 4009>>,
        <<1, -53, 1380, 3970, 2424, 15466>>, <<1, -53, 1467, 5231, 56, 5600>>,
        <<1, -53, 1548, 2890, 15411, 3461>>, <<1, -53, 1622, 3286, 16315, 2195>>,
        <<1, -53, 1689, 458, 12580, 1052>>, <<1, -53, 1748, 8713, 8581, 35>>,
        <<1, -53, 1800, 13086, 861, 9989>>, <<1, -53, 1846, 1583, 13832, 4418>>,
        <<1, -53, 1884, 13735, 7894, 14096>>, <<1, -53, 1917, 8886, 542, 3116>>,
        <<1, -53, 1944, 13036, 13529, 10350>>, <<1, -53, 1967, 3593, 11564, 9250>>,
        <<1, -53, 1985, 7185, 2799, 15525>>, <<1, -53, 2000, 964, 16196, 738>>,
        <<1, -53, 2011, 10620, 1839, 4801>>, <<1, -53, 2020, 11864, 10335, 13312>>,
        <<1, -53, 2027, 12242, 8328, 6635>>, <<1, -53, 2033, 1930, 1010, 12131>>,
        <<1, -53, 2037, 2899, 5005, 8664>>, <<1, -53, 2040, 3435, 2152, 2684>>,
        <<1, -53, 2042, 7368, 6002, 6273>>, <<1, -53, 2044, 1404, 10471, 2451>>,
        <<1, -53, 2045, 4379, 4596, 6062>>, <<1, -53, 2046, 1822, 14443, 8641>>,
        <<1, -53, 2046, 11592, 6263, 6012>>, <<1, -53, 2047, 2036, 8649, 15801>>,
        <<1, -53, 2047, 6758, 1933, 15947>>, <<1, -53, 2047, 9988, 11135, 14322>>,
        <<1, -53, 2047, 12176, 640, 16294>>, <<1, -53, 2047, 13641, 13032, 11028>>,
        <<1, -53, 2047, 14613, 16068, 15560>>, <<1, -53, 2047, 15252, 4657, 6123>>,
        <<1, -53, 2047, 15667, 2974, 4086>>, <<1, -53, 2047, 15934, 3188, 12994>>,
        <<1, -53, 2047, 16104, 5734, 15137>>, <<1, -53, 2047, 16211, 11954, 11081>>,
        <<1, -53, 2047, 16278, 13794, 354>>, <<1, -53, 2047, 16320, 6350, 9317>>,
        <<1, -53, 2047, 16345, 14151, 7704>>, <<1, -53, 2047, 16361, 5568, 12542>>,
        <<1, -53, 2047, 16370, 10719, 1649>>, <<1, -53, 2047, 16376, 3418, 14393>>,
        <<1, -53, 2047, 16379, 8041, 13732>>, <<1, -53, 2047, 16381, 6763, 11130>>,
        <<1, -53, 2047, 16382, 8655, 551>>, <<1, -53, 2047, 16383, 2783, 6645>>,
        <<1, -53, 2047, 16383, 8777, 4945>>, <<1, -53, 2047, 16383, 12165, 2560>>,
        <<1, -53, 2047, 16383, 14063, 8568>>, <<1, -53, 2047, 16383, 15118, 2804>>,
        <<1, -53, 2047, 16383, 15699, 1989>>, <<1, -53, 2047, 16383, 16016, 7326>>,
        <<1, -53, 2047, 16383, 16188, 5439>>, <<1, -53, 2047, 16383, 16280, 10924>>,
        <<1, -53, 2047, 16383, 16329, 14115>>, <<1, -53, 2047, 16383, 16355, 14070>>,
        <<1, -53, 2047, 16383, 16369, 7968>>, <<1, -53, 2047, 16383, 16376, 9383>>,
        <<1, -53, 2047, 16383, 16380, 3741>>, <<1, -53, 2047, 16383, 16382, 1628>>,
        <<1, -53, 2047, 16383, 16383, 810>>, <<1, -53, 2047, 16383, 16383, 8654>>,
        <<1, -53, 2047, 16383, 16383, 12576>>, <<1, -53, 2047, 16383, 16383, 14522>>,
        <<1, -53, 2047, 16383, 16383, 15480>>, <<1, -53, 2047, 16383, 16383, 15949>>,
        <<1, -53, 2047, 16383, 16383, 16176>>, <<1, -53, 2047, 16383, 16383, 16285>>,
        <<1, -53, 2047, 16383, 16383, 16337>>, <<1, -53, 2047, 16383, 16383, 16362>>,
        <<1, -53, 2047, 16383, 16383, 16374>>, <<1, -53, 2047, 16383, 16383, 16379>>,
        <<1, -53, 2047, 16383, 16383, 16382>>, <<1, -53, 2047, 16383, 16383, 16383>>,
        <<1, -52, 1024, 0, 0, 0>> >>)

\* the largest argument the masses of a mean are tabulated to; no level and
\* no horizon within the reach of the search goes beyond it
PoissonSupport(mean) == Len(PoissonPmfTable[mean]) - 1

\* poisson.pmf(k, mean)
PoissonPmf(k, mean) == IF k < 0 THEN Zero ELSE PoissonPmfTable[mean][k + 1]

\* poisson.cdf(k, mean): 1.0 from the last tabulated argument on
PoissonCdf(k, mean) ==
    IF k < 0 THEN Zero
    ELSE IF k + 1 > Len(PoissonCdfTable[mean]) THEN One
    ELSE PoissonCdfTable[mean][k + 1]

(***************************************************************************)
(* The single-period cost collaborator.  collab is the function of the      *)
(* costs it reports in place of the exact ones: it is empty for the exact   *)
(* collaborator, and has the levels of its own costs as its domain          *)
(* otherwise.                                                               *)
(***************************************************************************)
ExactCollab == <<>>

Reported(y, exact) == IF y \in DOMAIN collab THEN collab[y] ELSE exact

(***************************************************************************)
(* pyinv/loss_functions.py                                                  *)
(***************************************************************************)
\* discrete_loss(x, pmf=dict): <<n(x), n_bar(x)>>; the dict has the keys
\* 0..Len(dict)-1
discrete_loss(x, dict) ==
    LET hi == Len(dict) - 1
        lo == IF x > 0 THEN x ELSE 0
        top == IF x < hi THEN x ELSE hi
        above == [i \in 1..(IF lo <= hi THEN hi - lo + 1 ELSE 0) |->
                    FMul(Float((lo + i - 1) - x), dict[lo + i])]
        below == [i \in 1..(IF top >= 0 THEN top + 1 ELSE 0) |->
                    FMul(Float(x - (i - 1)), dict[i])]
    IN  <<NpSum(above), NpSum(below)>>

\* lines 344-345 with F = poisson.cdf(x, mean) and f = poisson.pmf(x, mean)
PoissonLossOf(x, mean, F, f) ==
    <<FAdd(FMul(Float(-(x - mean)), FSub(One, F)), FMul(Float(mean), f)),
      FAdd(FMul(Float(x - mean), F), FMul(Float(mean), f))>>

\* poisson_loss(x, mean): <<n(x), n_bar(x)>>
poisson_loss(x, mean) ==
    PoissonLossOf(x, mean, PoissonCdf(x, mean), PoissonPmf(x, mean))

(***************************************************************************)
(* pyinv/newsvendor.py (the single-period collaborators)                    *)
(***************************************************************************)
RECURSIVE Quantile(_, _, _)
\* smallest y >= y0 whose cumulative mass under the explicit law reaches
\* alpha (the last demand value when none does)
Quantile(law, alpha, y0) ==
    IF y0 >= Len(law) - 1 \/ FLe(alpha, LawCdf(law, y0)) THEN y0
    ELSE Quantile(law, alpha, y0 + 1)

\* the least element of a set of integers that is not empty
Least(set) == CHOOSE y \in set : \A z \in set : y <= z

\* smallest y with poisson.cdf(y, mean) >= alpha
PoissonQuantile(mean, alpha) ==
    Least({ y \in 0..PoissonSupport(mean) :
              y = PoissonSupport(mean) \/ FLe(alpha, PoissonCdf(y, mean)) })

\* the critical ratio p / (h + p)
CriticalRatio(h, p) == FDiv(Float(p), Float(h + p))

\* the expected cost h * n_bar + p * n of the loss l = <<n, n_bar>>
ExpectedCost(h, p, l) == FAdd(FMul(Float(h), l[2]), FMul(Float(p), l[1]))

newsvendor_poisson_cost(base_stock_level, h, p, mean) ==
    Reported(base_stock_level, ExpectedCost(h, p, poisson_loss(base_stock_level, mean)))

\* <<base_stock_level, cost>> for the level y
PoissonSolution(y, h, p, mean) == <<y, newsvendor_poisson_cost(y, h, p, mean)>>

\* <<base_stock_level, cost>>
newsvendor_poisson(h, p, mean) ==
    PoissonSolution(PoissonQuantile(mean, CriticalRatio(h, p)), h, p, mean)

\* <<base_stock_level, cost>> for the level y
DiscreteSolution(y, h, p, dict) ==
    <<y, Reported(y, ExpectedCost(h, p, discrete_loss(y, dict)))>>

\* <<base_stock_level, cost>>; base_stock_level is None or PyInt(y)
newsvendor_discrete(h, p, dict, base_stock_level) ==
    DiscreteSolution(IF IsNone(base_stock_level)
                     THEN Quantile(dict, CriticalRatio(h, p), 0)
                     ELSE base_stock_level.v,
                     h, p, dict)

(***************************************************************************)
(* pyinv/ss.py: s_s_cost_discrete, one operator per step of the code.       *)
(* A step that raises gives the exception's name instead of a value.        *)
(***************************************************************************)
Ok(x) == [status |-> "ok", v |-> x]

Raise(e) == [status |-> e, v |-> <<>>]

\* lines 96-107: the assertions, in order; "ok" when all pass
CheckParameters(h, p, K, mean, hi, dpmf) ==
    IF ~(h > 0) \/ ~(p > 0) \/ ~(K > 0) THEN "AssertionError"
    ELSE IF hi.tag \notin {"None", "int"} THEN "TypeError"
    ELSE IF hi.tag = "int" /\ hi.v < 0 THEN "AssertionError"
    ELSE IF dpmf.tag = "None" THEN "ok"
    ELSE IF dpmf.tag # "list" THEN "AssertionError"
    ELSE IF hi.tag = "None" THEN "TypeError"
    ELSE IF Len(dpmf.v) # hi.v + 1 THEN "AssertionError"
    ELSE "ok"

\* a variant of DeterminePmf that scales the Poisson masses of the horizon
\* to the total 1
DeterminePmfScaled(n, up, mean, dpmf) ==
    IF up
    THEN LET first == [k \in 1..(IF n > 0 THEN n ELSE 0) |-> PoissonPmf(k - 1, mean.v)]
         IN  [k \in 1..Len(first) |-> FDiv(first[k], NpSum(first))]
    ELSE dpmf.v

\* lines 109-114: the pmf the renewal arrays are built from
DeterminePmf(n, up, mean, dpmf) ==
    IF up THEN [k \in 1..(IF n > 0 THEN n ELSE 0) |-> PoissonPmf(k - 1, mean.v)]
    ELSE dpmf.v

\* a variant of DensityStart without the reciprocal: m[0] = 1 - pmf[0]
DensityStartOfMass(n, up, pmf_) ==
    IF n < 0 THEN Raise("ValueError")
    ELSE IF Len(pmf_) = 0 THEN Raise("IndexError")
    ELSE IF n = 0 THEN Raise("IndexError")
    ELSE Ok([k \in 1..n |->
              IF k = 1 THEN FSub(One, pmf_[1]) ELSE Zero])

\* lines 117-118: m = zeros(n); m[0] = 1.0 / (1 - pmf[0])
DensityStart(n, up, pmf_) ==
    IF n < 0 THEN Raise("ValueError")
    ELSE IF Len(pmf_) = 0 THEN Raise("IndexError")
    ELSE IF ~up /\ pmf_[1] = One THEN Raise("ZeroDivisionError")
    ELSE IF n = 0 THEN Raise("IndexError")
    ELSE Ok([k \in 1..n |->
              IF k = 1 THEN FRecip(FSub(One, pmf_[1])) ELSE Zero])

\* a variant of DensityStep: the method of line 122 the code left behind,
\* m[j] = sum(pmf[d] * m[j-d], d = 0..j) with m[j] still 0 on the right
DensityStepOld(pmf_, m_, jj) ==
    IF jj >= Len(pmf_) THEN Raise("IndexError")
    ELSE Ok([m_ EXCEPT ![jj + 1] =
              NpSum([l \in 1..(jj + 1) |-> FMul(pmf_[l], m_[jj - l + 2])])])

\* lines 119-120, pass j of the loop: m[j] = m[0] * sum(pmf[l] * m[j-l], l = 1..j)
DensityStep(pmf_, m_, jj) ==
    IF jj >= Len(pmf_) THEN Raise("IndexError")
    ELSE Ok([m_ EXCEPT ![jj + 1] =
              FMul(m_[1], NpSum([l \in 1..jj |-> FMul(pmf_[l + 1], m_[jj - l + 1])]))])

RECURSIVE DensityUpTo(_, _, _, _)
\* the array m after the passes j = 1..last of the loop
DensityUpTo(n, up, pmf_, last) ==
    IF last = 0 THEN DensityStart(n, up, pmf_)
    ELSE LET before == DensityUpTo(n, up, pmf_, last - 1)
         IN  IF before.status # "ok" THEN before
             ELSE DensityStep(pmf_, before.v, last)

\* lines 119-120: the whole loop
RenewalDensity(n, up, pmf_) == DensityUpTo(n, up, pmf_, IF n > 1 THEN n - 1 ELSE 0)

\* a variant of RenewalStep that adds m[j-1] to M[0] instead of M[j-1]
RenewalStepFromStart(m_, M_, jj) == [M_ EXCEPT ![jj + 1] = FAdd(M_[1], m_[jj])]

\* lines 127-128, pass j of the loop: M[j] = M[j-1] + m[j-1]
RenewalStep(m_, M_, jj) == [M_ EXCEPT ![jj + 1] = FAdd(M_[jj], m_[jj])]

RECURSIVE RenewalUpTo(_, _)
\* lines 125-128: M = zeros(n + 1) after the passes j = 1..last
RenewalUpTo(m_, last) ==
    IF last = 0 THEN [k \in 1..(Len(m_) + 1) |-> Zero]
    ELSE RenewalStep(m_, RenewalUpTo(m_, last - 1), last)

RenewalFunction(m_) == RenewalUpTo(m_, Len(m_))

\* lines 133-144: the single-period cost the evaluator weights m[d] with
EvaluatorSinglePeriodCost(y, h, p, up, mean, hi, dpmf) ==
    IF up THEN newsvendor_poisson_cost(y, h, p, mean.v)
    ELSE newsvendor_discrete(h, p, SubSeq(dpmf.v, 1, hi.v), PyInt(y))[2]

\* a variant of CostStep that adds g(S - d) without the weight m[d]
CostStepUnweighted(cost_, m_, dd, oul, h, p, up, mean, hi, dpmf) ==
    FAdd(cost_, EvaluatorSinglePeriodCost(oul - dd, h, p, up, mean, hi, dpmf))

\* lines 132-144, one pass of the loop: cost += m[d] * g(S - d)
CostStep(cost_, m_, dd, oul, h, p, up, mean, hi, dpmf) ==
    FAdd(cost_, FMul(m_[dd + 1],
                     EvaluatorSinglePeriodCost(oul - dd, h, p, up, mean, hi, dpmf)))

RECURSIVE CostUpTo(_, _, _, _, _, _, _, _, _, _)
\* lines 131-144: cost after the passes d = 0..last-1
CostUpTo(m_, last, oul, h, p, K, up, mean, hi, dpmf) ==
    IF last = 0 THEN Float(K)
    ELSE CostStep(CostUpTo(m_, last - 1, oul, h, p, K, up, mean, hi, dpmf),
                  m_, last - 1, oul, h, p, up, mean, hi, dpmf)

\* a variant of PerPeriod that divides by M[n] twice
PerPeriodTwice(total, M_, n) == FDiv(FDiv(total, M_[n + 1]), M_[n + 1])

\* line 145: cost /= M[n]
PerPeriod(total, M_, n) == FDiv(total, M_[n + 1])

\* s_s_cost_discrete as the search calls it: Ok(cost) or Raise(exception)
s_s_cost_discrete(rp, oul, h, p, K, up, mean, hi, dpmf) ==
    LET chk == CheckParameters(h, p, K, mean, hi, dpmf)
        n == oul - rp
        pmf_ == DeterminePmf(n, up, mean, dpmf)
        dens == RenewalDensity(n, up, pmf_)
        M_ == RenewalFunction(dens.v)
        total == CostUpTo(dens.v, n, oul, h, p, K, up, mean, hi, dpmf)
    IN  IF chk # "ok" THEN Raise(chk)
        ELSE IF dens.status # "ok" THEN dens
        ELSE Ok(PerPeriod(total, M_, n))

(***************************************************************************)
(* pyinv/ss.py: s_s_discrete_exact, one action per step of the code.        *)
(* pc is the position: "start" (line 221), "bracket" (the loop of lines     *)
(* 236-248), "incumbent" (line 251), "expand" (the test of line 270),       *)
(* "inner" (the test of line 286), "next" (line 305), "done" (returned),    *)
(* "raised" (an exception left the function) and "overrun" (the loop went   *)
(* further than MaxReach from y_star, where the model stops following it).  *)
(* A local not yet assigned holds 0 (an integer) or NaN (a float).          *)
(***************************************************************************)
\* the demand arguments of a call with an explicit pmf: use_poisson = False,
\* demand_hi and demand_pmf given
ExplicitArguments(law) ==
    /\ use_poisson = FALSE
    /\ demand_mean = None
    /\ demand_hi = PyInt(Len(law) - 1)
    /\ demand_pmf = PyList(law)

\* the demand arguments of a Poisson call: use_poisson = True, demand_mean given
PoissonArguments(mean) ==
    /\ use_poisson = TRUE
    /\ demand_mean = PyInt(mean)
    /\ demand_hi = None
    /\ demand_pmf = None

\* the demand arguments the callers of the two functions pass
Arguments ==
    \/ \E law \in Laws : ExplicitArguments(law)
    \/ \E mean \in 0..MaxMean : PoissonArguments(mean)

SearchIdle ==
    /\ pc = "idle" /\ y_star = 0 /\ S0 = 0 /\ s = 0 /\ S = 0
    /\ s_hat = 0 /\ S_hat = 0 /\ g_hat = NaN /\ gs = NaN /\ gS = NaN

CostIdle ==
    /\ reorder_point = 0 /\ order_up_to_level = 0 /\ cpc = "idle"
    /\ pmf = <<>> /\ m = <<>> /\ j = 0 /\ M = <<>> /\ cost = NaN /\ d = 0

\* no NodeStateVars object exists
NoStateVars ==
    /\ heap = <<>> /\ sv = None /\ sv_dict = None /\ nsv = None
    /\ seen = <<>> /\ edits = 0

\* the first call: nothing was called before it
FirstCall == calls = 0 /\ trace = <<>> /\ earlier = <<>> /\ NoStateVars

InitSearch(collabs) ==
    /\ holding_cost \in 1..MaxUnitCost
    /\ stockout_cost \in 1..MaxUnitCost
    /\ fixed_cost \in 1..MaxFixedCost
    /\ Arguments
    /\ collab \in collabs
    /\ pc = "start" /\ y_star = 0 /\ S0 = 0 /\ s = 0 /\ S = 0
    /\ s_hat = 0 /\ S_hat = 0 /\ g_hat = NaN /\ gs = NaN /\ gS = NaN
    /\ CostIdle
    /\ err = ""
    /\ FirstCall

Init == InitSearch({ExactCollab})

\* lines 223, 226: demand_pmf_dict
demand_pmf_dict ==
    IF use_poisson THEN None
    ELSE PyDict(SubSeq(demand_pmf.v, 1, demand_hi.v + 1))

\* the single-period cost as the search obtains it (lines 238-244, 264-269,
\* 279-285, 290-296, 306-312)
SearchSinglePeriodCost(y) ==
    IF use_poisson
    THEN newsvendor_poisson_cost(y, holding_cost, stockout_cost, demand_mean.v)
    ELSE newsvendor_discrete(holding_cost, stockout_cost, demand_pmf_dict.v, PyInt(y))[2]

\* the evaluator as the search calls it at lines 245, 273, 286 and 300
SearchCost(rp, oul) ==
    s_s_cost_discrete(rp, oul, holding_cost, stockout_cost, fixed_cost,
                      use_poisson, demand_mean, demand_hi, demand_pmf)

\* a variant of IncumbentCost that evaluates the next candidate S0 + 1
IncumbentCostOfCandidate(rp, oul) ==
    s_s_cost_discrete(rp, oul + 1, holding_cost, stockout_cost, fixed_cost,
                      use_poisson, demand_mean, demand_pmf_dict, None)

\* the evaluator as the search calls it at lines 256-258: demand_pmf_dict is
\* passed in the position of demand_hi, and demand_pmf is left at its default
IncumbentCost(rp, oul) ==
    s_s_cost_discrete(rp, oul, holding_cost, stockout_cost, fixed_cost,
                      use_poisson, demand_mean, demand_pmf_dict, None)

\* how far the model follows s and S from y_star: MaxReach, and three times
\* the mean further for a Poisson law
Reach == MaxReach + (IF use_poisson THEN 3 * demand_mean.v ELSE 0)

\* a level the model follows the search to: within Reach of y_star
InReach(y) ==
    /\ y - y_star <= Reach
    /\ y_star - y <= Reach

\* a variant of BracketDone with a strict test
BracketDoneStrict(c, g) == FLt(c, g)

\* a variant of BracketDone with the two costs in each other's place
BracketDoneSwapped(c, g) == FLe(g, c)

\* lines 245-247: the bracket loop ends when g(s, S0) <= g(s)
BracketDone(c, g) == FLe(c, g)

\* a variant of LoopContinues that charges the candidate the fixed cost
LoopContinuesCharged(g, incumbent) == FLe(FAdd(g, Float(fixed_cost)), incumbent)

\* line 270: the loop over S continues while g(S) <= g_hat
LoopContinues(g, incumbent) == FLe(g, incumbent)

\* a variant of Improves that takes a tie for an improvement
ImprovesOrTies(c, incumbent) == FLe(c, incumbent)

\* lines 273-275: the candidate S improves on the incumbent
Improves(c, incumbent) == FLt(c, incumbent)

\* a variant of InnerContinues with the test inverted
InnerContinuesInverted(c, g) == FLe(g, c)

\* lines 286-288: the inner loop continues while g(s, S_hat) <= g(s + 1)
InnerContinues(c, g) == FLe(c, g)

\* lines 221-232
DetermineYStar ==
    /\ pc = "start"
    /\ LET y == IF use_poisson
                THEN newsvendor_poisson(holding_cost, stockout_cost, demand_mean.v)[1]
                ELSE newsvendor_discrete(holding_cost, stockout_cost,
                                         demand_pmf_dict.v, None)[1]
       IN  /\ y_star' = y
           /\ S0' = y
           /\ s' = y
    /\ pc' = "bracket"
    /\ UNCHANGED <<argvars, costvars, S, s_hat, S_hat, g_hat, gs, gS, err, histvars, objvars>>

\* lines 236-248, one pass of the loop
BracketStep ==
    /\ pc = "bracket"
    /\ InReach(s - 1)
    /\ s' = s - 1
    /\ gs' = SearchSinglePeriodCost(s - 1)
    /\ LET c == SearchCost(s - 1, S0)
       IN  IF c.status # "ok" THEN pc' = "raised" /\ err' = c.status
           ELSE /\ pc' = (IF BracketDone(c.v, gs') THEN "incumbent" ELSE "bracket")
                /\ err' = err
    /\ trace' = Append(trace, <<s - 1, S0, SearchCost(s - 1, S0)>>)
    /\ UNCHANGED <<argvars, costvars, y_star, S0, S, s_hat, S_hat, g_hat, gS, calls, earlier, objvars>>

\* a variant of InitIncumbent that takes S_hat itself for the next
\* order-up-to level: S = S_hat
InitIncumbentSameS ==
    /\ pc = "incumbent"
    /\ S_hat' = S0
    /\ s_hat' = s
    /\ LET c == IncumbentCost(s, S0)
       IN  IF c.status # "ok"
           THEN /\ pc' = "raised" /\ err' = c.status
                /\ UNCHANGED <<g_hat, S, gS>>
           ELSE /\ g_hat' = c.v
                /\ S' = S0
                /\ gS' = SearchSinglePeriodCost(S0)
                /\ pc' = "expand"
                /\ err' = err
    /\ trace' = Append(trace, <<s, S0, IncumbentCost(s, S0)>>)
    /\ UNCHANGED <<argvars, costvars, y_star, S0, s, gs, calls, earlier, objvars>>

\* lines 250-269
InitIncumbent ==
    /\ pc = "incumbent"
    /\ S_hat' = S0
    /\ s_hat' = s
    /\ LET c == IncumbentCost(s, S0)
       IN  IF c.status # "ok"
           THEN /\ pc' = "raised" /\ err' = c.status
                /\ UNCHANGED <<g_hat, S, gS>>
           ELSE /\ g_hat' = c.v
                /\ S' = S0 + 1
                /\ gS' = SearchSinglePeriodCost(S0 + 1)
                /\ pc' = "expand"
                /\ err' = err
    /\ trace' = Append(trace, <<s, S0, IncumbentCost(s, S0)>>)
    /\ UNCHANGED <<argvars, costvars, y_star, S0, s, gs, calls, earlier, objvars>>

\* lines 270-285: the loop continues; the improvement test
ExpandTest ==
    /\ pc = "expand"
    /\ LoopContinues(gS, g_hat)
    /\ LET c == SearchCost(s_hat, S)
       IN  IF c.status # "ok"
           THEN /\ pc' = "raised" /\ err' = c.status
                /\ UNCHANGED <<S_hat, gs>>
           ELSE IF Improves(c.v, g_hat)
           THEN /\ S_hat' = S
                /\ gs' = SearchSinglePeriodCost(s + 1)
                /\ pc' = "inner"
                /\ err' = err
           ELSE /\ pc' = "next"
                /\ UNCHANGED <<S_hat, gs, err>>
    /\ trace' = Append(trace, <<s_hat, S, SearchCost(s_hat, S)>>)
    /\ UNCHANGED <<argvars, costvars, y_star, S0, s, S, s_hat, g_hat, gS, calls, earlier, objvars>>

\* lines 286-296, one pass of the inner loop
InnerStep ==
    /\ pc = "inner"
    /\ LET c == SearchCost(s, S_hat)
       IN  IF c.status # "ok"
           THEN /\ pc' = "raised" /\ err' = c.status
                /\ trace' = Append(trace, <<s, S_hat, c>>)
                /\ UNCHANGED <<s, gs, s_hat, g_hat>>
           ELSE IF InnerContinues(c.v, gs)
           THEN /\ InReach(s + 1)
                /\ s' = s + 1
                /\ gs' = SearchSinglePeriodCost(s + 2)
                /\ trace' = Append(trace, <<s, S_hat, c>>)
                /\ UNCHANGED <<pc, err, s_hat, g_hat>>
           \* lines 298-302: the loop is left, the incumbent is updated
           ELSE LET g == SearchCost(s, S_hat)
                IN  /\ s_hat' = s
                    /\ g_hat' = g.v
                    /\ pc' = "next"
                    /\ trace' = trace \o <<(<<s, S_hat, c>>), (<<s, S_hat, g>>)>>
                    /\ UNCHANGED <<s, gs, err>>
    /\ UNCHANGED <<argvars, costvars, y_star, S0, S, S_hat, gS, calls, earlier, objvars>>

\* a variant of NextS that passes over a candidate: S += 2
NextSSkipping ==
    /\ pc = "next"
    /\ InReach(S + 2)
    /\ S' = S + 2
    /\ gS' = SearchSinglePeriodCost(S + 2)
    /\ pc' = "expand"
    /\ UNCHANGED <<argvars, costvars, y_star, S0, s, s_hat, S_hat, g_hat, gs, err, histvars, objvars>>

\* lines 304-312
NextS ==
    /\ pc = "next"
    /\ InReach(S + 1)
    /\ S' = S + 1
    /\ gS' = SearchSinglePeriodCost(S + 1)
    /\ pc' = "expand"
    /\ UNCHANGED <<argvars, costvars, y_star, S0, s, s_hat, S_hat, g_hat, gs, err, histvars, objvars>>

\* a variant of Return that hands s_hat and S_hat back in each other's place
ReturnSwapped ==
    /\ pc = "expand"
    /\ ~LoopContinues(gS, g_hat)
    /\ s' = S_hat
    /\ S' = s_hat
    /\ pc' = "done"
    /\ UNCHANGED <<argvars, costvars, y_star, S0, s_hat, S_hat, g_hat, gs, gS, err, histvars, objvars>>

\* lines 270, 314-318: the loop ends, (s_hat, S_hat, g_hat) is returned
Return ==
    /\ pc = "expand"
    /\ ~LoopContinues(gS, g_hat)
    /\ s' = s_hat
    /\ S' = S_hat
    /\ pc' = "done"
    /\ UNCHANGED <<argvars, costvars, y_star, S0, s_hat, S_hat, g_hat, gs, gS, err, histvars, objvars>>

\* a loop that is still running MaxReach away from y_star
Overrun ==
    /\ \/ pc = "bracket" /\ ~InReach(s - 1)
       \/ pc = "next" /\ ~InReach(S + 1)
       \/ /\ pc = "inner" /\ ~InReach(s + 1)
          /\ LET c == SearchCost(s, S_hat) IN c.status = "ok" /\ InnerContinues(c.v, gs)
    /\ pc' = "overrun"
    /\ UNCHANGED <<argvars, costvars, y_star, S0, s, S, s_hat, S_hat, g_hat, gs, gS, err, histvars, objvars>>

Next ==
    \/ DetermineYStar
    \/ BracketStep
    \/ InitIncumbent
    \/ ExpandTest
    \/ InnerStep
    \/ NextS
    \/ Return
    \/ Overrun

Spec == Init /\ [][Next]_vars

(***************************************************************************)
(* s_s_discrete_exact called a second time with the same arguments.  A call *)
(* runs in a frame of its own: none of its locals is bound when it starts,  *)
(* whatever the call before left in its own.  What the second call has in   *)
(* common with the first is what the caller passes again: the numbers and   *)
(* the list demand_pmf.                                                     *)
(***************************************************************************)
\* what a call that ended handed to its caller
Outcome == IF pc = "done" THEN <<"done", s, S, g_hat>> ELSE <<pc, err>>

\* line 150, again: the first call has ended, the caller calls once more
CallAgain ==
    /\ pc \in {"done", "raised"}
    /\ calls = 0
    /\ calls' = 1
    /\ earlier' = [trace |-> trace, outcome |-> Outcome]
    /\ trace' = <<>>
    /\ pc' = "start" /\ y_star' = 0 /\ S0' = 0 /\ s' = 0 /\ S' = 0
    /\ s_hat' = 0 /\ S_hat' = 0 /\ g_hat' = NaN /\ gs' = NaN /\ gS' = NaN
    /\ err' = ""
    /\ UNCHANGED <<argvars, costvars, objvars>>

(***************************************************************************)
(* pyinv/ss.py: s_s_cost_discrete called directly, one action per step of   *)
(* the code.  cpc is the position: "called" (line 96), "density" (the loop  *)
(* of lines 119-120), "renewal" (the loop of lines 127-128), "sum" (the     *)
(* loop of lines 132-144), "returned" and "raised".                         *)
(***************************************************************************)
\* the cost parameters of a direct call: the positive triples with the least
\* or the largest fixed cost, and the triples with one parameter 0
CostParameters ==
    ((1..MaxUnitCost) \X (1..MaxUnitCost) \X {1, MaxFixedCost})
        \cup {<<0, 1, 1>>, <<1, 0, 1>>, <<1, 1, 0>>}

\* the horizons S - s of a direct call: from -1 to one more than the longest
\* explicit pmf
Horizons == (0 - 1)..(MaxDemand + 2)

InitCost ==
    /\ \E c \in CostParameters :
          holding_cost = c[1] /\ stockout_cost = c[2] /\ fixed_cost = c[3]
    /\ Arguments
    /\ collab = ExactCollab
    /\ order_up_to_level \in 0..MaxDemand
    /\ \E n \in Horizons : reorder_point = order_up_to_level - n
    /\ cpc = "called"
    /\ pmf = <<>> /\ m = <<>> /\ j = 0 /\ M = <<>> /\ cost = NaN /\ d = 0
    /\ SearchIdle
    /\ err = ""
    /\ FirstCall

\* int(order_up_to_level) - int(reorder_point)
Horizon == order_up_to_level - reorder_point

\* a variant of CostStart that keeps the density of the call before when it
\* has the length this call needs (a memo keyed by the horizon)
CostStartMemo ==
    /\ cpc = "called"
    /\ LET chk == CheckParameters(holding_cost, stockout_cost, fixed_cost,
                                  demand_mean, demand_hi, demand_pmf)
           pmf_ == DeterminePmf(Horizon, use_poisson, demand_mean, demand_pmf)
           m0 == IF Horizon >= 1 /\ Len(m) = Horizon THEN Ok(m)
                 ELSE DensityStart(Horizon, use_poisson, pmf_)
       IN  IF chk # "ok"
           THEN cpc' = "raised" /\ err' = chk /\ UNCHANGED <<pmf, m, j>>
           ELSE IF m0.status # "ok"
           THEN cpc' = "raised" /\ err' = m0.status /\ pmf' = pmf_ /\ UNCHANGED <<m, j>>
           ELSE cpc' = "density" /\ pmf' = pmf_ /\ m' = m0.v /\ j' = 1 /\ err' = err
    /\ UNCHANGED <<argvars, searchvars, reorder_point, order_up_to_level, M, cost, d, histvars, objvars>>

\* a variant of CostStart that cuts the explicit pmf down to the horizon
\* where it stands (del pmf[n:] after line 114): pmf is the caller's list
\* under another name, so the caller's demand_pmf is cut as well
CostStartInPlace ==
    /\ cpc = "called"
    /\ LET \* the list after del law[n:], n of either sign
           CutAt(law, n) ==
               SubSeq(law, 1, IF n >= Len(law) THEN Len(law)
                              ELSE IF n >= 0 THEN n
                              ELSE IF Len(law) + n >= 0 THEN Len(law) + n ELSE 0)
           chk == CheckParameters(holding_cost, stockout_cost, fixed_cost,
                                  demand_mean, demand_hi, demand_pmf)
           pmf_ == IF use_poisson
                   THEN DeterminePmf(Horizon, use_poisson, demand_mean, demand_pmf)
                   ELSE CutAt(demand_pmf.v, Horizon)
           m0 == DensityStart(Horizon, use_poisson, pmf_)
       IN  /\ demand_pmf' = (IF chk = "ok" /\ ~use_poisson THEN PyList(pmf_)
                             ELSE demand_pmf)
           /\ IF chk # "ok"
              THEN cpc' = "raised" /\ err' = chk /\ UNCHANGED <<pmf, m, j>>
              ELSE IF m0.status # "ok"
              THEN cpc' = "raised" /\ err' = m0.status /\ pmf' = pmf_ /\ UNCHANGED <<m, j>>
              ELSE cpc' = "density" /\ pmf' = pmf_ /\ m' = m0.v /\ j' = 1 /\ err' = err
    /\ UNCHANGED <<holding_cost, stockout_cost, fixed_cost, use_poisson,
                   demand_mean, demand_hi, collab, searchvars, reorder_point,
                   order_up_to_level, M, cost, d, histvars, objvars>>

\* lines 96-118: the assertions, the pmf, m = zeros(n) and m[0]
CostStart ==
    /\ cpc = "called"
    /\ LET chk == CheckParameters(holding_cost, stockout_cost, fixed_cost,
                                  demand_mean, demand_hi, demand_pmf)
           pmf_ == DeterminePmf(Horizon, use_poisson, demand_mean, demand_pmf)
           m0 == DensityStart(Horizon, use_poisson, pmf_)
       IN  IF chk # "ok"
           THEN cpc' = "raised" /\ err' = chk /\ UNCHANGED <<pmf, m, j>>
           ELSE IF m0.status # "ok"
           THEN cpc' = "raised" /\ err' = m0.status /\ pmf' = pmf_ /\ UNCHANGED <<m, j>>
           ELSE cpc' = "density" /\ pmf' = pmf_ /\ m' = m0.v /\ j' = 1 /\ err' = err
    /\ UNCHANGED <<argvars, searchvars, reorder_point, order_up_to_level, M, cost, d, histvars, objvars>>

\* lines 119-120, one pass of the loop
CostDensity ==
    /\ cpc = "density"
    /\ j < Horizon
    /\ LET next == DensityStep(pmf, m, j)
       IN  IF next.status # "ok"
           THEN cpc' = "raised" /\ err' = next.status /\ UNCHANGED <<m, j>>
           ELSE m' = next.v /\ j' = j + 1 /\ UNCHANGED <<cpc, err>>
    /\ UNCHANGED <<argvars, searchvars, reorder_point, order_up_to_level, pmf, M, cost, d, histvars, objvars>>

\* lines 125-126: the loop has ended; M = zeros(n + 1), M[0] = 0
CostRenewalStart ==
    /\ cpc = "density"
    /\ ~(j < Horizon)
    /\ M' = RenewalUpTo(m, 0)
    /\ j' = 1
    /\ cpc' = "renewal"
    /\ UNCHANGED <<argvars, searchvars, reorder_point, order_up_to_level, pmf, m, cost, d, err, histvars, objvars>>

\* lines 127-128, one pass of the loop
CostRenewal ==
    /\ cpc = "renewal"
    /\ j < Horizon + 1
    /\ M' = RenewalStep(m, M, j)
    /\ j' = j + 1
    /\ UNCHANGED <<argvars, searchvars, reorder_point, order_up_to_level, cpc, pmf, m, cost, d, err, histvars, objvars>>

\* line 131: the loop has ended; cost = fixed_cost
CostSumStart ==
    /\ cpc = "renewal"
    /\ ~(j < Horizon + 1)
    /\ cost' = CostUpTo(m, 0, order_up_to_level, holding_cost, stockout_cost,
                        fixed_cost, use_poisson, demand_mean, demand_hi, demand_pmf)
    /\ d' = 0
    /\ cpc' = "sum"
    /\ UNCHANGED <<argvars, searchvars, reorder_point, order_up_to_level, pmf, m, j, M, err, histvars, objvars>>

\* lines 132-144, one pass of the loop
CostSum ==
    /\ cpc = "sum"
    /\ d < Horizon
    /\ cost' = CostStep(cost, m, d, order_up_to_level, holding_cost, stockout_cost,
                        use_poisson, demand_mean, demand_hi, demand_pmf)
    /\ d' = d + 1
    /\ UNCHANGED <<argvars, searchvars, reorder_point, order_up_to_level, cpc, pmf, m, j, M, err, histvars, objvars>>

\* lines 145-147: the loop has ended; cost /= M[n]; return cost
CostReturn ==
    /\ cpc = "sum"
    /\ ~(d < Horizon)
    /\ cost' = PerPeriod(cost, M, Horizon)
    /\ cpc' = "returned"
    /\ UNCHANGED <<argvars, searchvars, reorder_point, order_up_to_level, pmf, m, j, M, d, err, histvars, objvars>>

NextCost ==
    \/ CostStart
    \/ CostDensity
    \/ CostRenewalStart
    \/ CostRenewal
    \/ CostSumStart
    \/ CostSum
    \/ CostReturn

SpecCost == InitCost /\ [][NextCost]_vars

(***************************************************************************)
(* s_s_discrete_exact called on the worked examples of tests/test_ss.py:    *)
(* Example 4.7 (holding cost 1, stockout cost 4, fixed cost 5, Poisson      *)
(* demand with mean 6) and instances of the Zheng-Federgruen table (holding *)
(* cost 1, stockout cost 9, fixed cost 64): the means 15, 40, 65, 23 and 61 *)
(* the loops of the tests visit, and the means 10 and 64.                   *)
(* Here a call of the evaluator is not one step of the search: the search   *)
(* waits at the line of the call ("line245", "line256", "line273",          *)
(* "line286", "line300") while s_s_cost_discrete takes its own steps.       *)
(***************************************************************************)
\* <<holding_cost, stockout_cost, fixed_cost, demand_mean>>
Examples == {<<1, 4, 5, 6>>} \cup { <<1, 9, 64, mean>> : mean \in ExampleMeans \ {6} }

InitExamples ==
    /\ \E e \in Examples :
          /\ holding_cost = e[1]
          /\ stockout_cost = e[2]
          /\ fixed_cost = e[3]
          /\ PoissonArguments(e[4])
    /\ collab = ExactCollab
    /\ pc = "start" /\ y_star = 0 /\ S0 = 0 /\ s = 0 /\ S = 0
    /\ s_hat = 0 /\ S_hat = 0 /\ g_hat = NaN /\ gs = NaN /\ gS = NaN
    /\ CostIdle
    /\ err = ""
    /\ FirstCall

\* the call s_s_cost_discrete(rp, oul, ...) begins: the evaluator's locals
\* are those of the direct call, and its parameters the caller's own
Call(rp, oul) ==
    /\ reorder_point' = rp
    /\ order_up_to_level' = oul
    /\ cpc' = "called"
    /\ UNCHANGED <<pmf, m, j, M, cost, d>>

\* the call has ended
Ended == cpc \in {"returned", "raised"}

\* what it handed back
Result == IF cpc = "returned" THEN Ok(cost) ELSE Raise(err)

\* lines 236-245, a pass of the bracket loop up to the call of line 245
BracketCall ==
    /\ pc = "bracket"
    /\ cpc = "idle"
    /\ InReach(s - 1)
    /\ s' = s - 1
    /\ gs' = SearchSinglePeriodCost(s - 1)
    /\ Call(s - 1, S0)
    /\ pc' = "line245"
    /\ UNCHANGED <<argvars, y_star, S0, S, s_hat, S_hat, g_hat, gS, err, histvars, objvars>>

\* lines 245-248, the rest of the pass
BracketResume ==
    /\ pc = "line245"
    /\ Ended
    /\ pc' = (IF cpc = "raised" THEN "raised"
              ELSE IF BracketDone(cost, gs) THEN "incumbent" ELSE "bracket")
    /\ trace' = Append(trace, <<s, S0, Result>>)
    /\ cpc' = "idle"
    /\ UNCHANGED <<argvars, y_star, S0, s, S, s_hat, S_hat, g_hat, gs, gS,
                   reorder_point, order_up_to_level, pmf, m, j, M, cost, d,
                   err, calls, earlier, objvars>>

\* lines 250-258, up to the call of lines 256-258, which passes
\* demand_pmf_dict in the position of demand_hi and no demand_pmf: with a
\* Poisson law these are the caller's own demand_hi and demand_pmf
IncumbentCall ==
    /\ pc = "incumbent"
    /\ cpc = "idle"
    /\ demand_pmf_dict = demand_hi /\ demand_pmf = None
    /\ S_hat' = S0
    /\ s_hat' = s
    /\ Call(s, S0)
    /\ pc' = "line256"
    /\ UNCHANGED <<argvars, y_star, S0, s, S, g_hat, gs, gS, err, histvars, objvars>>

\* lines 256-269
IncumbentResume ==
    /\ pc = "line256"
    /\ Ended
    /\ IF cpc = "raised"
       THEN /\ pc' = "raised"
            /\ UNCHANGED <<g_hat, S, gS>>
       ELSE /\ g_hat' = cost
            /\ S' = S0 + 1
            /\ gS' = SearchSinglePeriodCost(S0 + 1)
            /\ pc' = "expand"
    /\ trace' = Append(trace, <<s, S0, Result>>)
    /\ cpc' = "idle"
    /\ UNCHANGED <<argvars, y_star, S0, s, s_hat, S_hat, gs,
                   reorder_point, order_up_to_level, pmf, m, j, M, cost, d,
                   err, calls, earlier, objvars>>

\* lines 270-273: the loop continues, up to the call of line 273
ExpandCall ==
    /\ pc = "expand"
    /\ cpc = "idle"
    /\ LoopContinues(gS, g_hat)
    /\ Call(s_hat, S)
    /\ pc' = "line273"
    /\ UNCHANGED <<argvars, y_star, S0, s, S, s_hat, S_hat, g_hat, gs, gS, err, histvars, objvars>>

\* lines 273-285: the improvement test
ExpandResume ==
    /\ pc = "line273"
    /\ Ended
    /\ IF cpc = "raised"
       THEN /\ pc' = "raised"
            /\ UNCHANGED <<S_hat, gs>>
       ELSE IF Improves(cost, g_hat)
       THEN /\ S_hat' = S
            /\ gs' = SearchSinglePeriodCost(s + 1)
            /\ pc' = "inner"
       ELSE /\ pc' = "next"
            /\ UNCHANGED <<S_hat, gs>>
    /\ trace' = Append(trace, <<s_hat, S, Result>>)
    /\ cpc' = "idle"
    /\ UNCHANGED <<argvars, y_star, S0, s, S, s_hat, g_hat, gS,
                   reorder_point, order_up_to_level, pmf, m, j, M, cost, d,
                   err, calls, earlier, objvars>>

\* line 286, up to the call in the test of the inner loop
InnerCall ==
    /\ pc = "inner"
    /\ cpc = "idle"
    /\ Call(s, S_hat)
    /\ pc' = "line286"
    /\ UNCHANGED <<argvars, y_star, S0, s, S, s_hat, S_hat, g_hat, gs, gS, err, histvars, objvars>>

\* lines 286-300: a pass of the inner loop, or the loop is left and the
\* incumbent is updated up to the call of line 300
InnerResume ==
    /\ pc = "line286"
    /\ Ended
    /\ IF cpc = "raised"
       THEN /\ pc' = "raised"
            /\ cpc' = "idle"
            /\ UNCHANGED <<s, gs, s_hat, reorder_point, order_up_to_level>>
       ELSE IF InnerContinues(cost, gs)
       THEN /\ InReach(s + 1)
            /\ s' = s + 1
            /\ gs' = SearchSinglePeriodCost(s + 2)
            /\ pc' = "inner"
            /\ cpc' = "idle"
            /\ UNCHANGED <<s_hat, reorder_point, order_up_to_level>>
       ELSE /\ s_hat' = s
            /\ reorder_point' = s
            /\ order_up_to_level' = S_hat
            /\ cpc' = "called"
            /\ pc' = "line300"
            /\ UNCHANGED <<s, gs>>
    /\ trace' = Append(trace, <<s, S_hat, Result>>)
    /\ UNCHANGED <<argvars, y_star, S0, S, S_hat, g_hat, gS,
                   pmf, m, j, M, cost, d, err, calls, earlier, objvars>>

\* lines 300-302
UpdateResume ==
    /\ pc = "line300"
    /\ Ended
    /\ IF cpc = "raised"
       THEN pc' = "raised" /\ UNCHANGED g_hat
       ELSE pc' = "next" /\ g_hat' = cost
    /\ trace' = Append(trace, <<s, S_hat, Result>>)
    /\ cpc' = "idle"
    /\ UNCHANGED <<argvars, y_star, S0, s, S, s_hat, S_hat, gs, gS,
                   reorder_point, order_up_to_level, pmf, m, j, M, cost, d,
                   err, calls, earlier, objvars>>

\* the steps of the search and, between a call and its end, those of the
\* evaluator; none of these searches leaves the reach
NextExamples ==
    \/ DetermineYStar
    \/ BracketCall
    \/ BracketResume
    \/ IncumbentCall
    \/ IncumbentResume
    \/ ExpandCall
    \/ ExpandResume
    \/ InnerCall
    \/ InnerResume
    \/ UpdateResume
    \/ NextS
    \/ Return
    \/ NextCost

SpecExamples == InitExamples /\ [][NextExamples]_vars

(***************************************************************************)
(* Calls one after the other: either function called again with the same    *)
(* arguments, and s_s_cost_discrete called again for the same pair with     *)
(* another demand law.                                                      *)
(***************************************************************************)
\* what a direct call of the evaluator that ended handed to its caller
CostOutcome == IF cpc = "returned" THEN <<"returned", cost>> ELSE <<cpc, err>>

\* line 30, again: the first call of the evaluator has ended, the caller
\* calls once more with the same arguments; the new frame has no local bound
CostSame ==
    /\ pc = "idle"
    /\ cpc \in {"returned", "raised"}
    /\ calls = 0
    /\ calls' = 1
    /\ earlier' = [trace |-> <<>>, outcome |-> CostOutcome]
    /\ cpc' = "called"
    /\ pmf' = <<>> /\ m' = <<>> /\ j' = 0 /\ M' = <<>> /\ cost' = NaN /\ d' = 0
    /\ err' = ""
    /\ UNCHANGED <<argvars, searchvars, reorder_point, order_up_to_level, trace, objvars>>

\* the first of two calls with the same arguments: a search, or the evaluator
\* with the least fixed cost
InitTwice ==
    \/ Init
    \/ InitCost /\ fixed_cost = 1

NextTwice ==
    \/ Next
    \/ CallAgain
    \/ NextCost
    \/ CostSame

SpecTwice == InitTwice /\ [][NextTwice]_vars

\* another explicit law of the same support: the masses in the opposite order
Reversed(law) == [k \in 1..Len(law) |-> law[Len(law) + 1 - k]]

\* line 30, again: the first call has ended, the caller calls once more for
\* the same pair, the same costs and another demand law (the next mean, or
\* the explicit masses in the opposite order); the arrays the first call
\* built are still there for a call that would look for them
CostAgain ==
    /\ cpc \in {"returned", "raised"}
    /\ calls = 0
    /\ calls' = 1
    /\ earlier' = [trace |-> <<>>, outcome |-> CostOutcome]
    /\ demand_mean' = (IF use_poisson THEN PyInt(demand_mean.v + 1) ELSE None)
    /\ demand_pmf' = (IF use_poisson THEN None ELSE PyList(Reversed(demand_pmf.v)))
    /\ cpc' = "called"
    /\ err' = ""
    /\ UNCHANGED <<holding_cost, stockout_cost, fixed_cost, use_poisson, demand_hi,
                   collab, searchvars, reorder_point, order_up_to_level,
                   pmf, m, j, M, cost, d, trace, objvars>>

\* the first call: a search, or the evaluator with unit holding and fixed
\* costs
InitCalls ==
    \/ Init
    \/ InitCost /\ holding_cost = 1 /\ stockout_cost = MaxUnitCost /\ fixed_cost = 1

NextCalls ==
    \/ NextCost
    \/ CostAgain
    \/ Next
    \/ CallAgain

SpecCalls == InitCalls /\ [][NextCalls]_vars

(***************************************************************************)
(* stockpyl/node_state_vars.py: NodeStateVars.to_dict, from_dict and        *)
(* reindex_state_variables.  A dict-valued attribute holds a reference      *)
(* Ref(a) to the dict heap[a]; two holders of the same reference see each   *)
(* other's changes.  The node has index 0, one product of index 0, the      *)
(* external supplier (whose dummy product has the index DummyProduct) and   *)
(* no successor node, so the content of a dict is one key, the index of a   *)
(* product, and the quantity it has for that key.                           *)
(***************************************************************************)
ssvars == <<argvars, searchvars, costvars, err, histvars>>

Ref(a) == [tag |-> "ref", v |-> a]

PyObject(attrs) == [tag |-> "NodeStateVars", v |-> attrs]

\* lines 911-923 and 965-977: the attributes passed through copy.deepcopy,
\* in the order of the code
DeepCopied ==
    <<"inbound_shipment_pipeline", "inbound_shipment", "inbound_order_pipeline",
      "inbound_order", "outbound_shipment", "on_order_by_predecessor",
      "backorders_by_successor", "outbound_disrupted_items",
      "inbound_disrupted_items", "order_quantity", "order_quantity_fg",
      "raw_material_inventory", "pending_finished_goods">>

\* lines 924-934 and 978-988: the attributes assigned as they are
Assigned ==
    <<"inventory_level", "disrupted", "holding_cost_incurred",
      "stockout_cost_incurred", "in_transit_holding_cost_incurred",
      "revenue_earned", "total_cost_incurred", "demand_cumul",
      "demand_met_from_stock", "demand_met_from_stock_cumul", "fill_rate">>

\* lines 173-229: the attributes the constructor sets to a dict when it is
\* given a node
DictValued ==
    DeepCopied \o <<"inventory_level", "demand_cumul", "demand_met_from_stock",
                    "demand_met_from_stock_cumul", "fill_rate">>

\* the index of the dummy product of the external supplier
DummyProduct == 0 - 5

\* lines 168-169 and 175-221: the dicts the constructor keys by the raw
\* material, here the dummy product of the external supplier; it keys the
\* other dicts by the node's product
KeyedByRawMaterial ==
    {"raw_material_inventory", "inbound_shipment_pipeline", "inbound_shipment",
     "on_order_by_predecessor", "order_quantity", "inbound_disrupted_items"}

Range(seq) == { seq[k] : k \in 1..Len(seq) }

Position(seq, x) == CHOOSE k \in 1..Len(seq) : seq[k] = x

Attributes == {"node", "period"} \cup Range(DeepCopied) \cup Range(Assigned)

\* what a holder of the object or dict sees in it: the content of each dict
\* it refers to, and its other values
ViewIn(obj, objects) ==
    [a \in Attributes |->
        IF obj.v[a].tag = "ref" THEN [tag |-> "dict", v |-> objects[obj.v[a].v]]
        ELSE obj.v[a]]

View(obj) == ViewIn(obj, heap)

\* lines 141-257: NodeStateVars(node): every dict has the quantity 0 for its
\* key
InitStateVars ==
    /\ heap = [k \in 1..Len(DictValued) |->
                 [key |-> IF DictValued[k] \in KeyedByRawMaterial THEN DummyProduct ELSE 0,
                  qty |-> 0]]
    /\ sv = PyObject([a \in Attributes |->
                IF a \in Range(DictValued) THEN Ref(Position(DictValued, a))
                ELSE IF a = "node" THEN [tag |-> "node", v |-> 0]
                ELSE IF a = "period" THEN None
                ELSE IF a = "disrupted" THEN [tag |-> "bool", v |-> FALSE]
                ELSE PyInt(0)])
    /\ sv_dict = None
    /\ nsv = None
    /\ seen = [sv_dict |-> None, nsv |-> None]
    /\ edits = 0
    /\ holding_cost = 1 /\ stockout_cost = 1 /\ fixed_cost = 1
    /\ PoissonArguments(1)
    /\ collab = ExactCollab
    /\ SearchIdle /\ CostIdle /\ err = ""
    /\ calls = 0 /\ trace = <<>> /\ earlier = <<>>

\* copy.deepcopy of the value x: a new dict with the same content, whose
\* identity is the address at; a value that is no dict is itself
DeepCopy(x, at) == IF x.tag = "ref" THEN Ref(at) ELSE x

\* the heap after the deep copies of the attributes DeepCopied of obj
HeapWithCopies(obj) ==
    heap \o [k \in 1..Len(DeepCopied) |->
                IF obj.v[DeepCopied[k]].tag = "ref"
                THEN heap[obj.v[DeepCopied[k]].v] ELSE [key |-> 0, qty |-> 0]]

\* lines 895-936: sv_dict = sv.to_dict()
ToDict ==
    /\ ~IsNone(sv)
    /\ IsNone(sv_dict)
    /\ heap' = HeapWithCopies(sv)
    /\ sv_dict' = PyDict([a \in Attributes |->
            IF a = "node" THEN PyInt(sv.v["node"].v)
            ELSE IF a \in Range(DeepCopied)
            THEN DeepCopy(sv.v[a], Len(heap) + Position(DeepCopied, a))
            ELSE sv.v[a]])
    /\ seen' = [seen EXCEPT !.sv_dict = ViewIn(sv_dict', heap')]
    /\ UNCHANGED <<ssvars, sv, nsv, edits>>

\* lines 938-990: nsv = NodeStateVars.from_dict(sv_dict)
FromDict ==
    /\ IsNone(nsv)
    /\ IF IsNone(sv_dict)
       THEN UNCHANGED <<heap, nsv, seen>>
       ELSE /\ heap' = HeapWithCopies(sv_dict)
            /\ nsv' = PyObject([a \in Attributes |->
                    IF a \in Range(DeepCopied)
                    THEN DeepCopy(sv_dict.v[a], Len(heap) + Position(DeepCopied, a))
                    ELSE sv_dict.v[a]])
            /\ seen' = [seen EXCEPT !.nsv = ViewIn(nsv', heap')]
    /\ UNCHANGED <<ssvars, sv, sv_dict, edits>>

\* the holder of sv changes a dict-valued attribute in place:
\* sv.attribute[key] = quantity
SetItemOfObject ==
    /\ ~IsNone(sv)
    /\ edits < MaxEdits
    /\ \E a \in Range(DictValued) :
          heap' = [heap EXCEPT ![sv.v[a].v].qty = edits + 1]
    /\ edits' = edits + 1
    /\ UNCHANGED <<ssvars, sv, sv_dict, nsv, seen>>

\* the holder of the dict changes a dict-valued entry in place:
\* sv_dict[attribute][key] = quantity
SetItemOfDict ==
    /\ ~IsNone(sv_dict)
    /\ edits < MaxEdits
    /\ \E a \in Range(DictValued) :
          heap' = [heap EXCEPT ![sv_dict.v[a].v].qty = edits + 1]
    /\ edits' = edits + 1
    /\ seen' = [seen EXCEPT !.sv_dict = ViewIn(sv_dict, heap')]
    /\ UNCHANGED <<ssvars, sv, sv_dict, nsv>>

\* lines 1008-1029: the dicts reindex_state_variables re-keys, in the order
\* of the code
Rekeyed ==
    <<"demand_cumul", "inventory_level", "demand_met_from_stock",
      "demand_met_from_stock_cumul", "fill_rate", "raw_material_inventory",
      "order_quantity_fg", "pending_finished_goods",
      "inbound_shipment_pipeline", "inbound_shipment",
      "on_order_by_predecessor", "order_quantity", "inbound_disrupted_items">>

\* the dicts old_to_new_prod_dict of the calls: a new index for the node's
\* product, for the dummy product and for the index after it, or for some of
\* these only
ProductMaps ==
    UNION { { f \in [dom -> {0, 1, DummyProduct, DummyProduct - 1}] :
                \A i \in dom : (i < 0) = (f[i] < 0) } :
            dom \in SUBSET {0, DummyProduct, DummyProduct - 1} }

\* the key the code asks change_dict_key to move in the dict of attribute
\* a: prod.index (lines 1008-1012, 1016-1017), each key the dict has (lines
\* 1013-1015), the index of the dummy product (lines 1022-1029)
OldKey(a, objects) ==
    IF a = "raw_material_inventory" THEN objects[sv.v[a].v].key
    ELSE IF a \in KeyedByRawMaterial THEN DummyProduct
    ELSE 0

RECURSIVE Reindexed(_, _, _)
\* change_dict_key(dict, old, map[old]) on the dict at the address at:
\* KeyError when map has no key old or the dict has none, with the dicts
\* changed so far left as they are; otherwise the entry moves to the new key
\* and the code goes on
ChangeDictKey(objects, map, i, at, old) ==
    IF old \notin DOMAIN map \/ objects[at].key # old
    THEN [heap |-> objects, err |-> "KeyError"]
    ELSE Reindexed([objects EXCEPT ![at].key = map[old]], map, i + 1)

\* the heap and the exception after the calls of change_dict_key from the
\* i-th on
Reindexed(objects, map, i) ==
    IF i > Len(Rekeyed) THEN [heap |-> objects, err |-> ""]
    ELSE ChangeDictKey(objects, map, i, sv.v[Rekeyed[i]].v, OldKey(Rekeyed[i], objects))

\* lines 994-1053: sv.reindex_state_variables(old_to_new_dict,
\* old_to_new_prod_dict), whatever keys the dicts of sv have by now; the loop
\* over the successor nodes has nothing to visit
ReindexStateVariables ==
    /\ ~IsNone(sv)
    /\ \E map \in ProductMaps : \E after \in {Reindexed(heap, map, 1)} :
          /\ heap' = after.heap
          /\ err' = after.err
    /\ UNCHANGED <<argvars, searchvars, costvars, histvars, sv, sv_dict, nsv, seen, edits>>

NextStateVars ==
    \/ ToDict
    \/ FromDict
    \/ SetItemOfObject
    \/ SetItemOfDict
    \/ ReindexStateVariables

SpecStateVars == InitStateVars /\ [][NextStateVars]_vars

(***************************************************************************)
(* Properties of the search (under Spec).                                   *)
(***************************************************************************)
\* the incumbent (s_hat, S_hat, g_hat) has been initialised (line 256 passed)
IncumbentSet == pc \in {"expand", "inner", "next", "done"}

\* the search is inside the inner loop of lines 286-296: S_hat is the new
\* candidate already, s_hat and g_hat are still those of the old incumbent
InInnerLoop == pc = "inner"

\* pmf[0] of the demand law of the call: poisson.pmf(0, demand_mean), or the
\* first entry of demand_pmf
MassAtZero == IF use_poisson THEN PoissonPmf(0, demand_mean.v) ELSE demand_pmf.v[1]

\* the law has pmf[0] < 1
ValidLaw == MassAtZero # One

\* |a - b| <= 2^-30: equal but for the rounding of the float operations
Close(a, b) ==
    LET diff == FSub(a, b)
    IN  FLe(IF diff[1] < 0 THEN FNeg(diff) ELSE diff, <<1, 0 - 82, 1024, 0, 0, 0>>)

\* the pairs s' < S' within Window of y_star
WindowPairs ==
    { pr \in ((y_star - Window)..(y_star + Window)) \X ((y_star - Window)..(y_star + Window)) :
        pr[1] < pr[2] }

\* C1: global optimality. The cost g_hat of the returned triple is at most
\* policy_cost(s', S') for every pair s' < S' of the window around y_star
\* (the demand law has pmf[0] < 1 and the costs are positive whenever the
\* search returns).
C1_GlobalOptimum ==
    pc = "done" =>
        /\ ValidLaw
        /\ \A pr \in WindowPairs :
              LET c == SearchCost(pr[1], pr[2])
              IN  c.status = "ok" /\ FLe(g_hat, c.v)

\* a search that returned after moving the incumbent to a larger S and a
\* larger s than the initial (s0, S0)
C1_Witness ==
    /\ pc = "done"
    /\ S_hat >= S0 + 2
    /\ S_hat - s_hat >= 3
    /\ FLt(g_hat, IncumbentCost(s_hat - 1, S0).v)

\* C2 as stated: from the initialisation of the incumbent until the return,
\* g_hat = policy_cost(s_hat, S_hat) in every state of the search.
C2_EveryState ==
    IncumbentSet => FEq(g_hat, SearchCost(s_hat, S_hat).v)

\* C2, amended: the returned g equals policy_cost(s, S) of the returned pair,
\* and g_hat = policy_cost(s_hat, S_hat) in every state after the incumbent is
\* initialised except inside the inner loop over s, where S_hat is already
\* the new candidate and s_hat, g_hat are still the old incumbent's.
C2_Consistent ==
    /\ (IncumbentSet /\ ~InInnerLoop) =>
          LET c == SearchCost(s_hat, S_hat)
          IN  c.status = "ok" /\ FEq(g_hat, c.v)
    /\ pc = "done" =>
          LET c == SearchCost(s, S)
          IN  c.status = "ok" /\ FEq(g_hat, c.v)

\* the search returned an incumbent that an update (lines 298-302) set
C2_Witness == pc = "done" /\ S_hat > S0 /\ FLt(g_hat, IncumbentCost(s_hat, S0).v)

\* C7: the incumbent has s_hat < S_hat in every state after its
\* initialisation, and the returned pair is the incumbent, with s < S.
C7_Ordered ==
    /\ IncumbentSet => s_hat < S_hat
    /\ pc = "done" => (s < S /\ s = s_hat /\ S = S_hat)

\* the search returned a pair with s < S after passing through the inner loop
C7_Witness == pc = "done" /\ s < S /\ S > S0 /\ s > y_star - MaxReach

\* C8: every incumbent cost, and so the returned cost, is at least g(y*),
\* which is the least single-period cost of the window and is not negative.
C8_LowerBound ==
    IncumbentSet =>
        /\ FLe(SearchSinglePeriodCost(y_star), g_hat)
        /\ \A y \in (y_star - Window)..(y_star + Window) :
              FLe(SearchSinglePeriodCost(y_star), SearchSinglePeriodCost(y))
        /\ FLe(Zero, SearchSinglePeriodCost(y_star))

\* an incumbent whose cost is above a positive g(y*)
C8_Witness ==
    /\ pc = "done"
    /\ FLt(Zero, SearchSinglePeriodCost(y_star))
    /\ FLt(SearchSinglePeriodCost(y_star), g_hat)
    /\ S_hat > S0

(***************************************************************************)
(* Properties of the evaluator called directly (under SpecCost).            *)
(***************************************************************************)
\* the loop of lines 119-120 has ended: m is complete
DensityBuilt == cpc \in {"renewal", "sum", "returned"}

\* the loop of lines 127-128 has ended: M is complete
RenewalBuilt == cpc \in {"sum", "returned"}

\* the arguments pass the assertions of lines 96-107
ValidParameters == holding_cost > 0 /\ stockout_cost > 0 /\ fixed_cost > 0

\* the single-period cost collaborator applied to the demand model of the
\* call: the whole law (spec section 6, single_period_cost)
single_period_cost(y) ==
    IF use_poisson
    THEN newsvendor_poisson_cost(y, holding_cost, stockout_cost, demand_mean.v)
    ELSE newsvendor_discrete(holding_cost, stockout_cost, demand_pmf.v, PyInt(y))[2]

\* C3: a call with S - s >= 1 returns
\* (fixed_cost + sum over d of m[d] * single_period_cost(S - d)) / M[S - s],
\* the terms added to fixed_cost one after the other, d = 0 first.
C3_CostFormula ==
    (cpc = "returned" /\ Horizon >= 1 /\ ValidLaw) =>
        FEq(cost,
            FDiv(AddAll(Float(fixed_cost),
                        [k \in 1..Horizon |->
                           FMul(m[k], single_period_cost(order_up_to_level - (k - 1)))],
                        1, Horizon, 1),
                 M[Horizon + 1]))

\* C3 in the parametric variant, where the evaluator applies the
\* single-period cost of the whole law
C3_ParametricCostFormula == use_poisson => C3_CostFormula

\* C4: with pmf[0] < 1 and a horizon n >= 1 covered by the pmf, the builder
\* yields m of length n with m[0] = 1 / (1 - pmf[0]) and
\* m[j] = m[0] * sum(pmf[l] * m[j-l], l = 1..j) for j = 1..n-1 (and so the
\* renewal equation m[j] = sum(pmf[l] * m[j-l], l = 0..j), but for the
\* rounding of the floats); the entries already assigned satisfy it while the
\* loop runs.
C4_RenewalDensity ==
    /\ (cpc \in {"density", "renewal", "sum", "returned"} /\ ValidLaw) =>
          /\ Len(m) = Horizon
          /\ FEq(m[1], FDiv(One, FSub(One, pmf[1])))
          /\ Close(FMul(m[1], FSub(One, pmf[1])), One)
          /\ \A jj \in 1..((IF DensityBuilt THEN Horizon ELSE j) - 1) :
                /\ FEq(m[jj + 1],
                       FMul(m[1], NpSum([l \in 1..jj |-> FMul(pmf[l + 1], m[jj - l + 1])])))
                /\ Close(m[jj + 1],
                         NpSum([l \in 1..(jj + 1) |-> FMul(pmf[l], m[jj - l + 2])]))
    /\ (cpc = "raised" /\ ValidParameters /\ ValidLaw /\ Horizon >= 1) =>
          (~use_poisson /\ Horizon > Len(demand_pmf.v))

\* a completed density of three entries, each of them positive
C4_Witness ==
    /\ cpc = "returned" /\ Horizon = 3 /\ ValidLaw
    /\ FLt(Zero, pmf[1]) /\ FLt(Zero, pmf[2])
    /\ FLt(Zero, m[2]) /\ FLt(m[2], m[3])

\* C5: with pmf[0] < 1, M has length n + 1, M[0] = 0 and
\* M[j] - M[j-1] = m[j-1] for j = 1..n (M[j] is the float M[j-1] + m[j-1],
\* so the difference is m[j-1] but for the rounding); the entries already
\* assigned satisfy it while the loop runs.
C5_RenewalIdentity ==
    (cpc \in {"renewal", "sum", "returned"} /\ ValidLaw) =>
        /\ Len(M) = Horizon + 1
        /\ M[1] = Zero
        /\ \A jj \in 1..(IF RenewalBuilt THEN Horizon ELSE j - 1) :
              /\ FEq(M[jj + 1], FAdd(M[jj], m[jj]))
              /\ Close(FSub(M[jj + 1], M[jj]), m[jj])

\* a completed renewal function of four entries that keeps growing
C5_Witness ==
    /\ cpc = "returned" /\ Horizon = 3 /\ ValidLaw
    /\ FLt(M[2], M[3]) /\ FLt(M[3], M[4])

\* C6: with S - s = 1, m has exactly one entry, M = [0, m[0]] and the call
\* returns (fixed_cost + m[0] * single_period_cost(S)) / m[0].
C6_DegenerateHorizon ==
    (cpc = "returned" /\ Horizon = 1 /\ ValidLaw) =>
        /\ Len(m) = 1
        /\ M = <<(Zero), m[1]>>
        /\ FEq(cost,
               FDiv(FAdd(Float(fixed_cost),
                         FMul(m[1], single_period_cost(order_up_to_level))),
                    m[1]))

\* C6 for the arrays alone, and for the cost in the parametric variant
C6_DegenerateArrays ==
    (cpc = "returned" /\ Horizon = 1 /\ ValidLaw) =>
        /\ Len(m) = 1
        /\ M = <<(Zero), m[1]>>
        /\ use_poisson =>
              FEq(cost,
                  FDiv(FAdd(Float(fixed_cost),
                            FMul(m[1], single_period_cost(order_up_to_level))),
                       m[1]))

\* the direct call, step by step, ends as the operator the search uses does
CostAgrees ==
    LET r == s_s_cost_discrete(reorder_point, order_up_to_level, holding_cost,
                               stockout_cost, fixed_cost, use_poisson,
                               demand_mean, demand_hi, demand_pmf)
    IN  /\ cpc = "returned" => (r.status = "ok" /\ r.v = cost)
        /\ cpc = "raised" => r.status = err

(***************************************************************************)
(* Termination of the search, and the search with a malformed collaborator. *)
(***************************************************************************)
\* C9: the search always reaches DONE (the single-period cost of every law
\* of the model is convex and grows without bound on both sides), so it never
\* ends in another way: no exception leaves it.
C9_ReachesDone == ValidLaw => pc # "raised"

\* C9 in the parametric variant with pmf[0] < 1: no exception leaves the
\* search and no loop runs MaxReach away from y_star
C9_ParametricReturns == (use_poisson /\ ValidLaw) => pc \notin {"raised", "overrun"}

\* the collaborators with a second basin: cost 0 reported at one level
Basins == { a :> Zero : a \in 0..(MaxDemand + Window) }

\* the search with a malformed single-period cost collaborator
SpecMalformed == InitSearch(Basins) /\ [][Next]_vars

\* the reported single-period cost is not quasi-convex on the window: some
\* level costs more than a level below it and a level above it
NotQuasiConvex ==
    \E y1, y2, y3 \in (y_star - Window)..(y_star + Window) :
        /\ y1 < y2 /\ y2 < y3
        /\ FLt(SearchSinglePeriodCost(y1), SearchSinglePeriodCost(y2))
        /\ FLt(SearchSinglePeriodCost(y3), SearchSinglePeriodCost(y2))

\* C10: with a single-period cost that is not quasi-convex the search never
\* returns a triple that is not the minimum (over the window of pairs).
C10_MalformedDetected ==
    (pc = "done" /\ collab \in Basins /\ NotQuasiConvex) =>
        \A pr \in WindowPairs :
            LET c == SearchCost(pr[1], pr[2])
            IN  c.status = "ok" /\ FLe(g_hat, c.v)

(***************************************************************************)
(* Failures of the evaluator called directly (under SpecCost).              *)
(***************************************************************************)
\* the arguments the evaluator is to reject: s >= S or a cost not positive
InvalidArguments == Horizon <= 0 \/ ~ValidParameters

\* C11: a call with s >= S or with a cost parameter that is not positive
\* fails with the validation error (the AssertionError of lines 96-107)
\* before anything is computed: the pmf is not determined, no array is built.
C11_ValidationFirst ==
    InvalidArguments =>
        /\ cpc \in {"called", "raised"}
        /\ cpc = "raised" => (err = "AssertionError" /\ pmf = <<>>)

\* C12: with pmf[0] >= 1 (and arguments that pass the assertions) the call
\* ends in the division error of line 118; it never builds the arrays or
\* returns a cost.
C12_DomainError ==
    (~ValidLaw /\ ValidParameters /\ Horizon >= 1 /\ cpc # "called") =>
        (cpc = "raised" /\ err = "ZeroDivisionError")

\* the call has an explicit pmf and positive costs, and a horizon of 1 or more
ExplicitCall == ~use_poisson /\ ValidParameters /\ Horizon >= 1

\* a call that failed with the error of an assertion on its arguments (lines
\* 96-107), made before the pmf is read
ConfigurationError == cpc = "raised" /\ err = "AssertionError"

\* C13, as stated: with an explicit pmf, a call whose horizon S - s exceeds
\* the length of the pmf fails with the configuration error, and fails
\* before any array is built; no pass of the density loop is due at an
\* index beyond the list; with the horizon within the length, the renewal
\* arrays are those of the first S - s entries alone.
C13_ExplicitHorizon ==
    ExplicitCall =>
        /\ Horizon > Len(demand_pmf.v) =>
              /\ cpc \in {"called", "raised"}
              /\ cpc = "raised" => ConfigurationError
        /\ (cpc = "density" /\ j < Horizon) => j < Len(pmf)
        /\ (Horizon <= Len(demand_pmf.v) /\ DensityBuilt) =>
              LET first == SubSeq(demand_pmf.v, 1, Horizon)
                  dens == RenewalDensity(Horizon, FALSE, first)
              IN  /\ dens.status = "ok" /\ m = dens.v
                  /\ RenewalBuilt => M = RenewalFunction(dens.v)

InitialIncumbent == pc = "expand" /\ S = S0 + 1 /\ S_hat = S0

\* C15: with use_poisson = False, a pmf list of length demand_hi + 1 and
\* pmf[0] < 1, no exception leaves the search, and the initial incumbent
\* cost is the evaluator's cost of (s0, S0) with the demand_hi and demand_pmf
\* of the call, as in the bracket loop.
C15_ExplicitSupported ==
    (~use_poisson /\ ValidLaw) =>
        /\ pc # "raised"
        /\ InitialIncumbent =>
              LET c == SearchCost(s_hat, S_hat)
              IN  c.status = "ok" /\ FEq(g_hat, c.v)

(***************************************************************************)
(* The worked examples (under SpecExamples).                                *)
(***************************************************************************)
\* the call is the one with these cost parameters and this Poisson mean
Example(h, p, K, mean) ==
    /\ holding_cost = h /\ stockout_cost = p /\ fixed_cost = K
    /\ use_poisson /\ demand_mean = PyInt(mean)

\* tests/test_ss.py, test_example_4_7
Example47 == Example(1, 4, 5, 6)

\* C16: Example 4.7.  For holding cost 1, stockout cost 4, fixed cost 5 and
\* Poisson demand with mean 6 the search returns s = 4 and S = 10, and the
\* cost g it returns is the cost s_s_cost_discrete gives the policy (4, 10)
\* for the same parameters, which the tests take for 8.034111561471644 to
\* seven places.
C16_Example47 ==
    (Example47 /\ pc = "done") =>
        /\ s = 4 /\ S = 10
        /\ Ok(g_hat) = s_s_cost_discrete(4, 10, holding_cost, stockout_cost,
                                         fixed_cost, use_poisson, demand_mean,
                                         demand_hi, demand_pmf)
        /\ AlmostEqual(g_hat, <<1, 0 - 49, 1028, 6001, 2119, 8022>>, 7)

\* the search of Example 4.7 has returned
C16_Witness == Example47 /\ pc = "done" /\ Len(trace) > 0

\* tests/test_ss.py, test_fz_instances: the rows <<mu, s, S, c>> of the table
\* for the means that are among the examples, c in thousandths
ZhengFedergruenTable ==
    {<<10, 6, 40, 35022>>, <<15, 10, 49, 42698>>, <<23, 17, 52, 52757>>,
     <<40, 33, 87, 64512>>, <<61, 52, 131, 77929>>, <<64, 55, 74, 78402>>,
     <<65, 56, 75, 78518>>}

\* the evaluator was called for the pair (rp, oul) in this search
Evaluated(rp, oul) == \E k \in 1..Len(trace) : trace[k][1] = rp /\ trace[k][2] = oul

\* every level the loops of the search go to next is within the reach
WithinReach ==
    /\ pc = "bracket" => InReach(s - 1)
    /\ pc = "next" => InReach(S + 1)
    /\ (pc = "line286" /\ cpc = "returned" /\ InnerContinues(cost, gs)) => InReach(s + 1)

\* C17: the Zheng-Federgruen table.  For holding cost 1, stockout cost 9,
\* fixed cost 64 and a Poisson mean of the table, the search returns the s
\* and S of the table and a cost within 1e-3 of the table's cost, and the
\* cost s_s_cost_discrete returns for the table's (s, S) is within 1e-3 of
\* the table's cost (each as the tests compare them: equal to three places).
\* No loop of these searches is cut short by the reach, and no call raises.
C17_TableRows ==
    \A row \in ZhengFedergruenTable :
        Example(1, 9, 64, row[1]) =>
            /\ WithinReach
            /\ pc # "raised" /\ cpc # "raised"
            /\ pc = "done" =>
                  (s = row[2] /\ S = row[3] /\ AlmostEqual(g_hat, Decimal(row[4], 3), 3))
            /\ (cpc = "returned" /\ reorder_point = row[2] /\ order_up_to_level = row[3])
                   => AlmostEqual(cost, Decimal(row[4], 3), 3)

\* the search for mean 23 has returned, past the candidate S = 76 that ends
\* its loop, and the evaluator was called for the table's pair (17, 52) on
\* the way
C17_Witness ==
    /\ Example(1, 9, 64, 23) /\ pc = "done" /\ Evaluated(17, 52)
    /\ gS = SearchSinglePeriodCost(76)

\* the instance of the table with mean 64
Mean64 == Example(1, 9, 64, 64)

\* C18, as the specification states it: for mean 64 the search returns
\* s = 67, S = 97 and a cost within 1e-3 of 79.554.
C18_AsStated ==
    (Mean64 /\ pc = "done") =>
        (s = 67 /\ S = 97 /\ AlmostEqual(g_hat, Decimal(79554, 3), 3))

\* C18, amended: for holding cost 1, stockout cost 9, fixed cost 64 and
\* Poisson demand with mean 64 the search returns s = 55, S = 74 and a cost
\* within 1e-3 of 78.402, the row of the table for mean 64 (s = 67 and
\* 79.554 are in its row for mean 75, S = 97 in its row for mean 45).
C18_Mean64 ==
    (Mean64 /\ pc = "done") =>
        (s = 55 /\ S = 74 /\ AlmostEqual(g_hat, Decimal(78402, 3), 3))

\* the search for mean 64 has returned its incumbent
C18_Witness == Mean64 /\ pc = "done" /\ s = s_hat /\ S = S_hat /\ Evaluated(s, S)

(***************************************************************************)
(* Calls one after the other (under SpecCalls).                             *)
(***************************************************************************)
\* the arguments a caller passed: those of both functions, and the pair
CallerArguments == <<holding_cost, stockout_cost, fixed_cost, use_poisson,
                     demand_mean, demand_hi, demand_pmf,
                     reorder_point, order_up_to_level>>

\* no step of a call changes an argument of the caller
ArgumentsKept == calls' = calls => CallerArguments' = CallerArguments

\* a second call owes nothing to the first: the evaluator's arrays and cost
\* are those built from the arguments of the second call alone, and the
\* search ends as it ended before
FreshEachCall ==
    calls = 1 =>
        LET n == Horizon
            dens == RenewalDensity(n, use_poisson,
                                   DeterminePmf(n, use_poisson, demand_mean, demand_pmf))
            r == s_s_cost_discrete(reorder_point, order_up_to_level, holding_cost,
                                   stockout_cost, fixed_cost, use_poisson,
                                   demand_mean, demand_hi, demand_pmf)
        IN  /\ (cpc \in {"renewal", "sum", "returned"}) => (dens.status = "ok" /\ m = dens.v)
            /\ (cpc \in {"sum", "returned"}) => M = RenewalFunction(dens.v)
            /\ cpc = "returned" => (r.status = "ok" /\ cost = r.v)
            /\ cpc = "raised" => r.status = err
            /\ pc \in {"done", "raised"} => Outcome = earlier.outcome

\* C19: the calls have no side effect.  No step of s_s_cost_discrete or of
\* s_s_discrete_exact changes the caller's demand_pmf or another argument,
\* and no state is kept between calls: in a second call the renewal arrays
\* are rebuilt from the arguments of that call, whatever the first call left.
C19_NoSideEffects == []FreshEachCall /\ [][ArgumentsKept]_vars

\* a second call of the evaluator, for another law, that returned another
\* cost over a horizon of two periods or more
C19_Witness ==
    /\ calls = 1 /\ cpc = "returned" /\ Horizon >= 2
    /\ earlier.outcome[1] = "returned" /\ earlier.outcome[2] # cost

(***************************************************************************)
(* NodeStateVars.to_dict and from_dict (under SpecStateVars).               *)
(***************************************************************************)
\* C20: to_dict and from_dict deep-copy every list and dict attribute.  The
\* dict keeps what its holder last saw in it whatever is changed in the
\* object it was made from, and the object made by from_dict keeps what its
\* holder last saw in it whatever is changed in the dict.
C20_DeepCopies ==
    /\ ~IsNone(sv_dict) => View(sv_dict) = seen.sv_dict
    /\ ~IsNone(nsv) => View(nsv) = seen.nsv

(***************************************************************************)
(* The steps of the search (under Spec).                                    *)
(***************************************************************************)
\* C21: BRACKET_S.  The search starts with S0 = y*, and the reorder point s0
\* the bracket loop ends with (pc = "incumbent": line 251, s0 = s), which is
\* the s_hat of the initial incumbent,
\* is the largest integer s < S0 with policy_cost(s, S0) <= g(s):
\* policy_cost(s0, S0) <= g(s0), and policy_cost(t, S0) > g(t) for every t
\* with s0 < t < S0.
C21_BracketS ==
    /\ pc # "start" => S0 = y_star
    /\ (pc = "incumbent" \/ InitialIncumbent) =>
          LET s0 == IF pc = "incumbent" THEN s ELSE s_hat
              c0 == SearchCost(s0, S0)
          IN  /\ s0 < S0
              /\ c0.status = "ok"
              /\ FLe(c0.v, SearchSinglePeriodCost(s0))
              /\ \A t \in (s0 + 1)..(S0 - 1) :
                    LET c == SearchCost(t, S0)
                    IN  c.status = "ok" /\ FLt(SearchSinglePeriodCost(t), c.v)

\* an initial incumbent whose s0 is three or more below S0: two reorder
\* points or more were passed over on the way down
C21_Witness == InitialIncumbent /\ s_hat <= S0 - 3 /\ s_hat = s

\* the search is in the loop over S of lines 270-312
Expanding == pc \in {"expand", "inner", "next"}

\* line 270 is about to end the loop: g(S) > g_hat for the candidate S
StopsHere == pc = "expand" /\ FLt(g_hat, gS)

\* one step of the search, as the stop rule allows it
StopRuleStep ==
    /\ (pc = "incumbent" /\ pc' = "expand") => S' = S0 + 1
    /\ (pc = "next" /\ pc' = "expand") => S' = S + 1
    /\ (Expanding /\ pc # "next" /\ pc' # "done") => S' = S
    /\ pc' = "expand" => gS' = SearchSinglePeriodCost(S')
    /\ StopsHere =>
          /\ pc' = "done"
          /\ trace' = trace
          /\ <<s_hat', S_hat', g_hat'>> = <<s_hat, S_hat, g_hat>>
    /\ pc' = "done" => StopsHere
    /\ pc = "done" => (trace' = trace /\ <<s_hat', S_hat', g_hat'>> = <<s_hat, S_hat, g_hat>>)

\* C22: the stop rule of EXPAND_S.  The candidates S are examined one at a
\* time in strictly increasing order, starting at S0 + 1 and each once (the
\* loop comes back to its head only with S one larger); the search moves to
\* DONE at the first candidate S with g(S) > g_hat, g_hat being the
\* incumbent cost at that moment, and only there; that step and the steps
\* after it evaluate no pair and leave the incumbent as it is.
C22_StopRule == [][StopRuleStep]_vars

\* a search that stopped at a candidate with g(S) > g_hat after it had moved
\* the incumbent and examined further candidates
C22_Witness ==
    /\ pc = "done" /\ FLt(g_hat, gS)
    /\ S_hat > S0 /\ Len(trace) >= 6
    /\ gS = SearchSinglePeriodCost(S_hat + 2)

\* the incumbent triple
\* collaborators with which the two tests tie for h = 1, K = 1 and a Poisson
\* demand of mean 1 (y* = 1, s0 = 0 and g_hat = 1 - exp(-1)): both report 0 at
\* level 1; at level 2 the first reports 1 - exp(-1), so that g(2) = g_hat,
\* and the second reports exp(-1), so that policy_cost(0, 2) = g_hat
Ties ==
    { (1 :> Zero) @@ (2 :> FSub(One, PoissonPmf(0, 1))),
      (1 :> Zero) @@ (2 :> PoissonPmf(0, 1)) }

\* the search with the collaborators of the ties
SpecTies == InitSearch(Ties) /\ [][Next]_vars

\* the candidate S at the head of the loop ties with the incumbent in the
\* necessary condition: g(S) = g_hat
TieOfNecessaryCondition == pc = "expand" /\ FEq(gS, g_hat)

Incumbent == <<s_hat, S_hat, g_hat>>

\* the candidate S at the head of the loop passes the necessary condition
\* and ties with the incumbent in the improvement test:
\* policy_cost(s_hat, S) = g_hat
TieOfImprovementTest ==
    /\ pc = "expand" /\ LoopContinues(gS, g_hat)
    /\ FEq(SearchCost(s_hat, S).v, g_hat)

\* one step of the search, as the two tests allow it
TieBreakStep ==
    /\ TieOfNecessaryCondition =>
          (pc' \in {"inner", "next"} /\ Len(trace') = Len(trace) + 1)
    /\ TieOfImprovementTest => (pc' = "next" /\ Incumbent' = Incumbent)
    /\ (Expanding /\ Incumbent' # Incumbent) =>
          LET c == SearchCost(s_hat, S)
          IN  c.status = "ok" /\ FLt(c.v, g_hat)

\* C23: the asymmetry of the ties.  For a candidate S with g(S) = g_hat the
\* search continues: the candidate is evaluated (the necessary condition is
\* not strict).  For a candidate S with policy_cost(s_hat, S) = g_hat the
\* incumbent (s_hat, S_hat, g_hat) is left as it is and the search passes to
\* the next S (the improvement test is strict).  The incumbent changes only
\* for a candidate with policy_cost(s_hat, S) < g_hat.
C23_TieBreak == [][TieBreakStep]_vars

\* a candidate whose cost with s_hat ties with the incumbent's was passed
\* over: the search is on its way to the next S, the incumbent is below S
C23_Witness ==
    /\ pc = "next" /\ S_hat < S
    /\ FEq(SearchCost(s_hat, S).v, g_hat)
    /\ FEq(SearchCost(s_hat, S_hat).v, g_hat)

\* lines 298-302 are passed in this step: the inner loop is left and the
\* incumbent updated
IncumbentUpdated == pc = "inner" /\ pc' = "next"

\* the update of the incumbent, as the inner search over s determines it
InnerSearchStep ==
    IncumbentUpdated =>
        LET new == SearchCost(s_hat', S)
        IN  /\ S_hat' = S /\ S_hat = S
            /\ s_hat' >= s_hat
            /\ new.status = "ok"
            /\ FLt(SearchSinglePeriodCost(s_hat' + 1), new.v)
            /\ \A t \in s_hat..(s_hat' - 1) :
                  LET c == SearchCost(t, S)
                  IN  c.status = "ok" /\ FLe(c.v, SearchSinglePeriodCost(t + 1))
            /\ g_hat' = new.v

\* C24: the inner search for the reorder point.  When a candidate S passes
\* the improvement test, the new s_hat is the smallest s >= the old s_hat
\* with policy_cost(s, S) > g(s + 1): every t with old s_hat <= t < new s_hat
\* has policy_cost(t, S) <= g(t + 1); and the new incumbent is
\* (that s, S, policy_cost(s, S)).
C24_InnerSearch == [][InnerSearchStep]_vars

\* an incumbent just updated whose reorder point the inner loop had raised:
\* the pair (s_hat - 1, S_hat) was evaluated and passed over
C24_Witness ==
    /\ pc = "next" /\ S_hat = S /\ S_hat > S0
    /\ Evaluated(s_hat - 1, S_hat)
    /\ FLe(SearchCost(s_hat - 1, S_hat).v, SearchSinglePeriodCost(s_hat))

\* inside the inner loop, the pair (s, S_hat) the test of line 286 evaluates
\* next costs no more than the pair (s_hat, S) that passed the improvement
\* test, which costs less than the incumbent
InnerNeverRaises ==
    InInnerLoop =>
        LET c == SearchCost(s, S_hat)
            first == SearchCost(s_hat, S_hat)
        IN  /\ s >= s_hat /\ S_hat = S
            /\ c.status = "ok" /\ first.status = "ok"
            /\ FLe(c.v, first.v)
            /\ FLt(first.v, g_hat)

\* one step of the search, as strict improvement allows it
ImprovementStep ==
    /\ IncumbentUpdated => FLt(g_hat', g_hat)
    /\ (IncumbentSet /\ IncumbentSet') => FLe(g_hat', g_hat)
    /\ (IncumbentSet /\ g_hat' # g_hat) => IncumbentUpdated

\* C25: strict improvement.  Every update of the incumbent in EXPAND_S
\* replaces g_hat by a strictly smaller cost: the increments of s in the
\* inner loop never raise policy_cost(s, S) above policy_cost(old s_hat, S),
\* which is below the old g_hat.  So g_hat never increases during the search.
C25_StrictImprovement == []InnerNeverRaises /\ [][ImprovementStep]_vars

\* the evaluation that initialised the incumbent: the last one made for S0
\* before the first for S0 + 1
InitialEvaluation(k) ==
    /\ k \in 1..(Len(trace) - 1)
    /\ trace[k][2] = S0 /\ trace[k + 1][2] = S0 + 1
    /\ trace[k][3].status = "ok"

\* the candidate of evaluation k passed the improvement test: k is the first
\* evaluation for a candidate S > S0 (line 273), and the pair was evaluated
\* again at once, by the test of the inner loop (line 286)
PassedAt(k) ==
    /\ k \in 2..(Len(trace) - 1)
    /\ trace[k][2] > S0 /\ trace[k - 1][2] < trace[k][2]
    /\ trace[k][1] = trace[k + 1][1] /\ trace[k][2] = trace[k + 1][2]

\* an incumbent just updated for the second time, its cost below the cost
\* of the initial incumbent
C25_Witness ==
    /\ pc = "next" /\ S_hat = S
    /\ \E k \in 1..Len(trace) : InitialEvaluation(k) /\ FLt(g_hat, trace[k][3].v)
    /\ \E k \in 1..Len(trace) : PassedAt(k) /\ trace[k][2] < S_hat

\* one step of the search, as a monotone incumbent allows it
MonotoneStep ==
    /\ IncumbentSet => (s_hat' >= s_hat /\ S_hat' >= S_hat)
    /\ (IncumbentSet /\ S_hat' # S_hat) => (S_hat' > S_hat /\ S_hat' = S)
    /\ IncumbentUpdated => (s_hat' >= s_hat /\ S_hat > S0)

\* C26: monotone incumbent.  At the head of every iteration of EXPAND_S
\* (pc = "expand", the test of line 270) the working variable s equals s_hat and the candidate S is greater than
\* S_hat; across the updates s_hat never decreases and S_hat strictly
\* increases.
C26_MonotoneIncumbent ==
    /\ [](pc = "expand" => (s = s_hat /\ S > S_hat))
    /\ [][MonotoneStep]_vars

\* the head of an iteration after an update that raised both s_hat and S_hat
C26_Witness ==
    /\ pc = "expand" /\ S = S_hat + 1 /\ S_hat > S0 + 1
    /\ \E k \in 1..Len(trace) : InitialEvaluation(k) /\ trace[k][1] < s_hat

\* the cost of the pair (S_hat - 1, S_hat), the last the inner loop can come
\* to, is fixed_cost * (1 - pmf[0]) + g(S_hat) (but for the rounding of the
\* floats), which is above g(S_hat)
LastPairStops ==
    LET c == SearchCost(S_hat - 1, S_hat)
        g == SearchSinglePeriodCost(S_hat)
    IN  /\ c.status = "ok"
        /\ Close(c.v, FAdd(FMul(Float(fixed_cost), FSub(One, MassAtZero)), g))
        /\ FLt(g, c.v)

\* C27: the search never evaluates policy_cost with s >= S.  The first
\* evaluation of the bracket loop is at s = S0 - 1, and the inner loop
\* always stops with s <= S_hat - 1, because policy_cost(S - 1, S) is
\* fixed_cost * (1 - pmf[0]) + g(S) > g(S) for fixed_cost > 0 and pmf[0] < 1.
C27_NeverAtOrAboveS ==
    /\ \A k \in 1..Len(trace) : trace[k][1] < trace[k][2]
    /\ Len(trace) >= 1 => (trace[1][1] = S0 - 1 /\ trace[1][2] = S0)
    /\ pc = "bracket" => s <= S0
    /\ InInnerLoop => (s <= S_hat - 1 /\ LastPairStops)

\* the inner loop has raised s and stops below S_hat, at a pair whose cost
\* is above g(s + 1)
C27_Witness ==
    /\ InInnerLoop /\ s > s_hat /\ s = S_hat - 2
    /\ FLt(gs, SearchCost(s, S_hat).v)

(***************************************************************************)
(* The renewal arrays of the evaluator called directly (under SpecCost).    *)
(***************************************************************************)
\* C28: positivity of the renewal arrays.  For a pmf with entries that are
\* not negative and pmf[0] < 1: m[0] >= 1 and no m[j] is negative; M goes
\* up strictly from M[0] = 0 to M[1] = m[0] and never down after; so the
\* divisor M[S - s] of the cost is strictly positive for every S - s >= 1.
C28_PositiveRenewal ==
    /\ (cpc \in {"density", "renewal", "sum", "returned"} /\ ValidLaw) =>
          /\ FLe(One, m[1])
          /\ \A k \in 1..Len(m) : FLe(Zero, m[k])
    /\ (RenewalBuilt /\ ValidLaw) =>
          /\ Horizon >= 1
          /\ M[1] = Zero /\ M[2] = m[1] /\ FLt(M[1], M[2])
          /\ \A k \in 2..Horizon : FLe(M[k], M[k + 1])
          /\ FLt(Zero, M[Horizon + 1])

\* a call that returned over a horizon of three periods with m[1] = 0: the
\* renewal function stays level from M[1] to M[2], then goes up
C28_Witness ==
    /\ cpc = "returned" /\ Horizon = 3 /\ ValidLaw
    /\ FLt(Zero, pmf[1])
    /\ m[2] = Zero /\ M[2] = M[3] /\ FLt(M[3], M[4])

\* the first n entries of an array: a[:n]
Prefix(a, n) == [k \in 1..n |-> a[k]]

\* the renewal density a call for the same demand law builds for the
\* horizon n: Ok(m) or Raise(exception)
DensityFor(n) ==
    RenewalDensity(n, use_poisson, DeterminePmf(n, use_poisson, demand_mean, demand_pmf))

\* lines 130-147 with the arrays given: the cost the evaluator returns for
\* the pair of this call when it takes m and M from the arrays kept
CostFrom(density, renewal) ==
    PerPeriod(CostUpTo(density, Horizon, order_up_to_level, holding_cost,
                       stockout_cost, fixed_cost, use_poisson, demand_mean,
                       demand_hi, demand_pmf),
              renewal, Horizon)

\* C29: prefix stability of the renewal arrays.  For the same demand law the
\* arrays m[0..K-1] and M[0..K] built for the horizon K are the first
\* entries of the arrays built for the horizon K + 1 (when the call for
\* K + 1 builds them); so the cost of a pair is the same with the arrays
\* rebuilt for the pair and with the first entries of arrays kept from a
\* longer horizon.
C29_PrefixStable ==
    (DensityBuilt /\ ValidLaw) =>
        LET longer == DensityFor(Horizon + 1)
            kept == RenewalFunction(longer.v)
        IN  longer.status = "ok" =>
              /\ m = Prefix(longer.v, Horizon)
              /\ RenewalBuilt => M = Prefix(kept, Horizon + 1)
              /\ cpc = "returned" =>
                    cost = CostFrom(Prefix(longer.v, Horizon), Prefix(kept, Horizon + 1))

\* a call that returned over a horizon of two periods or more, where the
\* arrays of the next horizon exist and go on with a positive entry
C29_Witness ==
    /\ cpc = "returned" /\ Horizon >= 2 /\ ValidLaw
    /\ FLt(Zero, m[Horizon])
    /\ DensityFor(Horizon + 1).status = "ok"
    /\ FLt(Zero, DensityFor(Horizon + 1).v[Horizon + 1])

\* C30: the explicit variant has one single-period cost function.  With
\* use_poisson = False the single-period cost the evaluator applies to S - d
\* is computed from the whole pmf over 0..demand_hi, the pmf the search
\* passes to the single-period collaborator for g(s), g(s + 1) and g(S): the
\* evaluator's cost of S - d is the search's cost of S - d.
C30_OneCostFunction ==
    (~use_poisson /\ cpc = "sum" /\ d < Horizon) =>
        EvaluatorSinglePeriodCost(order_up_to_level - d, holding_cost, stockout_cost,
                                  use_poisson, demand_mean, demand_hi, demand_pmf)
            = SearchSinglePeriodCost(order_up_to_level - d)

====
